---- MODULE Spec2Model ----
(***************************************************************************)
(* Synchronization and reconciliation engine of the Trier SGF connector    *)
(* (src/conexao_api_trier_sgf.py).                                         *)
(*                                                                         *)
(* A DataFrame is a sequence of rows; a row is a record with one field per *)
(* column.  A cell is NaN (the empty tuple: the JSON key was absent, or    *)
(* pandas filled the hole left by a concat) or a one-element tuple holding *)
(* the value.  A column exists in a DataFrame built from a list of dicts   *)
(* iff at least one dict carries the key.  A table of the SQLite file is   *)
(* a sequence of rows; the empty sequence is the missing table, because    *)
(* _escrever_para_db never writes zero rows and _ler_do_db returns an      *)
(* empty DataFrame for a missing table.                                    *)
(***************************************************************************)
EXTENDS Integers, Sequences, FiniteSets, TLC

VARIABLES
    \* the SQLite file (cfg.DATABASE_FILE) and the checkpoint directory
    vendas,              \* table 'vendas'
    compras,             \* table 'compras'
    estado,              \* cfg.STATE_DIR: task name -> NaN or <<ultima_data_concluida>>
    \* the process running a historical load
    pc,                  \* "ocioso", "laco" (loop test) or "checkpoint" (after the write)
    tarefa,              \* NOME_TAREFA of the load in progress
    data_inicio_loop,
    data_atual_periodo,
    data_fim_loop,
    df_existente,
    relogio,             \* the day datetime.now() last returned
    \* history of the load in progress
    cpEntrada,           \* checkpoint found at entry
    buscas,              \* the periods fetched so far in this run
    cpAntes,             \* checkpoint when the current period started
    tabAntes,            \* table when the current period started
    falhas,              \* which fetches of the current period returned None
    desfecho,            \* how the last run ended
    \* one call of the reconciliation
    alvo,                \* which function this behaviour exercises
    dados_alterados,     \* response of the sales / purchases endpoint
    dados_cancelados,    \* response of the cancellation endpoint
    df_vendas_periodo,
    rodada,              \* 0, or 1 after a task ran, 2 after it ran again on the same responses
    \* the products table and one call of sincronizar_estoque
    produtos,            \* table 'produtos'
    dados_estoque,       \* response of the stock endpoint
    \* one call of _buscar_dados_paginados
    params,              \* the caller's filter parameters
    todos_os_dados,
    primeiro_registro,
    pagina_de_dados,     \* what realizar_requisicao_segura returned for the last request
    requisicoes,         \* the requests sent so far and the size of what came back
    retorno,             \* what the call returned
    \* one call of realizar_requisicao_segura
    headers,             \* the caller's headers
    auth_headers,
    ciclo,
    tentativa,
    eventos,             \* the GETs sent and the sleeps taken by the call in progress
    \* the orchestrator (src/orquestrador.py)
    tabelas_encontradas, \* the essential tables the SQLite file holds
    agora,
    proxima_exec,        \* task -> next due time
    indice,              \* position in the list of loads or of tasks
    devidas,             \* the tasks due when the cycle started
    executadas,          \* the task bodies run in this cycle, and whether each raised
    carga_abortada,      \* the historical loads aborted and not invoked since
    \* the enrichment
    vendedores,          \* table 'vendedores'
    vendas_processadas   \* table 'vendas_processadas'

varsDisco == <<vendas, compras, estado>>
varsCarga == <<pc, tarefa, data_inicio_loop, data_atual_periodo, data_fim_loop,
               df_existente, relogio>>
varsHist == <<cpEntrada, buscas, cpAntes, tabAntes, falhas, desfecho>>
varsMerge == <<dados_alterados, dados_cancelados, df_vendas_periodo, rodada>>
varsEstoque == <<produtos, dados_estoque>>
varsPagina == <<params, todos_os_dados, primeiro_registro, pagina_de_dados,
                requisicoes, retorno>>
varsRequisicao == <<headers, auth_headers, ciclo, tentativa, eventos>>
varsOrquestrador == <<tabelas_encontradas, agora, proxima_exec, indice, devidas,
                      executadas, carga_abortada>>
varsAnalitico == <<vendedores, vendas_processadas>>
vars == <<varsDisco, varsCarga, varsHist, alvo, varsMerge, varsEstoque, varsPagina,
          varsRequisicao, varsOrquestrador, varsAnalitico>>

----------------------------------------------------------------------------
(* Bounds and value domains *)

MaxRegistros == 3                \* records in the two responses of one merge call
MaxCarga == 1                    \* records in one response during a historical load
MaxDia == 11                     \* last day datetime.now() returns
MaxProdutos == 2                 \* records in one response of the products endpoint
MaxEstoque == 2                  \* records in one response of the stock endpoint
MaxPaginas == 3                  \* pages the upstream holds for one paginated fetch
MaxDemora == 1                   \* minutes the task bodies of one cycle take in all
MaxMinuto == 11                  \* last minute datetime.now() returns to the orchestrator

(* cfg.HISTORICAL_START_DATE as a day number, cfg.SALES_FILE_DAYS_INTERVAL *)
DataInicioHistorico == 0
SALES_FILE_DAYS_INTERVAL == 10

(* the page size of _buscar_dados_paginados *)
quantidade_registros == 999

Codigos == {"1", "2"}
TiposDeCodigo == {"int", "str"}
Keys == {"100", "200"}           \* numeroNota / numeroNotaFiscal / codigo values

NaN == <<>>

ValoresVenda == {NaN, <<50>>}          \* valorTotalLiquido sent by the sales endpoint
ValoresCancelamento == {NaN, <<70>>}   \* ... and by the cancellation endpoint
Tipos == {<<"D">>, <<"E">>, NaN}       \* tipoCancelamento; NaN: the key is absent

SeqAte(S, n) == UNION {[1..m -> S] : m \in 0..n}

(* A response of _buscar_dados_paginados: a list, or None on failure. *)
Lista(l) == [ok |-> TRUE, dados |-> l]
ListaVazia == [ok |-> TRUE, dados |-> <<>>]
None == [ok |-> FALSE, dados |-> <<>>]

(* Dicts of the sales endpoint and of the cancellation endpoint. *)
DictsVenda(V, S) ==
    [numeroNota : Keys, valorTotalLiquido : V, status : S,
     tipoCancelamento : {NaN}]

(* Dicts of the purchases endpoint. *)
DictsCompra == [numeroNotaFiscal : Keys, valorTotal : {<<10>>, <<20>>}]

DictsCancelamento(V, T) ==
    [numeroNota : Keys, valorTotalLiquido : V, status : {NaN},
     tipoCancelamento : T]

----------------------------------------------------------------------------
(* pandas helpers *)

(* 'col' in df.columns, for a DataFrame built by pd.DataFrame(list of dicts) *)
HasCol(df, col) == \E i \in DOMAIN df : df[i][col] # NaN

RECURSIVE Filtrar(_, _, _)
Filtrar(df, keep, i) ==
    IF i > Len(df) THEN <<>>
    ELSE (IF i \in keep THEN <<df[i]>> ELSE <<>>) \o Filtrar(df, keep, i + 1)

(* df[mask] : the rows whose index is in keep, in order *)
Selecionar(df, keep) == Filtrar(df, keep, 1)

DropDuplicatesFirst(df, col) ==
    Selecionar(df, {i \in DOMAIN df :
                      \A j \in DOMAIN df : j < i => df[j][col] # df[i][col]})

SemDropDuplicates(df, col) == df

(* df.drop_duplicates(subset=[col], keep='last') *)
DropDuplicatesLast(df, col) ==
    Selecionar(df, {i \in DOMAIN df :
                      \A j \in DOMAIN df : j > i => df[j][col] # df[i][col]})

(* _concatenar_dfs_com_seguranca *)
Concatenar(df1, df2) ==
    IF df1 = <<>> THEN df2 ELSE IF df2 = <<>> THEN df1 ELSE df1 \o df2

(* df['status'] = df.get('status', pd.Series(dtype='str')).fillna('OK')     *)
(* With the column present its NaN cells become 'OK'.  With the column      *)
(* absent the empty Series is aligned on the index of df: every cell NaN.   *)
PreencherStatus(df) ==
    IF HasCol(df, "status")
    THEN [i \in DOMAIN df |->
            IF df[i].status = NaN THEN [df[i] EXCEPT !.status = <<"OK">>]
            ELSE df[i]]
    ELSE df

SemInverter(df_cancelados, linha) == linha.valorTotalLiquido

(* pd.to_numeric(col, errors='coerce').fillna(0) * -1, applied only when    *)
(* the column exists in df_cancelados                                       *)
InverterSinal(df_cancelados, linha) ==
    IF ~HasCol(df_cancelados, "valorTotalLiquido") THEN NaN
    ELSE IF linha.valorTotalLiquido = NaN THEN <<0>>
    ELSE <<0 - linha.valorTotalLiquido[1]>>

DoTipo(df, t) ==
    Selecionar(df, {i \in DOMAIN df : df[i].tipoCancelamento = <<t>>})

(* df_devolvidas: the 'D' rows, sign flipped, status DEVOLUCAO *)
Devolvidas(df_cancelados) ==
    LET d == DoTipo(df_cancelados, "D")
    IN [i \in DOMAIN d |->
          [d[i] EXCEPT !.valorTotalLiquido = InverterSinal(df_cancelados, d[i]),
                       !.status = <<"DEVOLUCAO">>]]

ExcluidasInvertidas(df_cancelados) ==
    LET e == DoTipo(df_cancelados, "E")
    IN [i \in DOMAIN e |->
          [e[i] EXCEPT !.valorTotalLiquido = InverterSinal(df_cancelados, e[i]),
                       !.status = <<"Excluida">>]]

(* df_excluidas: the 'E' rows, status Excluida *)
Excluidas(df_cancelados) ==
    LET e == DoTipo(df_cancelados, "E")
    IN [i \in DOMAIN e |-> [e[i] EXCEPT !.status = <<"Excluida">>]]

----------------------------------------------------------------------------
(* The merge of one backfill window, realizar_carga_historica_vendas        *)
(* lines 347-371: df_vendas_periodo after the cancellation block.           *)
(* dados is the list dados_vendas (the None case returned earlier);         *)
(* r_canc is the response dados_cancelados and may be None.                 *)

MergePeriodoVendas(dados, r_canc) ==
    LET base == IF dados # <<>> THEN PreencherStatus(dados)
                ELSE dados
        canc == r_canc.dados
    IN IF r_canc.ok /\ canc # <<>> /\ HasCol(canc, "tipoCancelamento")
       THEN DropDuplicatesLast(
                Concatenar(Concatenar(base, Devolvidas(canc)), Excluidas(canc)),
                "numeroNota")
       ELSE base

(* The merge of one incremental run, atualizar_vendas_recentes lines        *)
(* 434-456: df_novos_e_atualizados.  Both arguments are DataFrames (a None  *)
(* response has already become an empty DataFrame, lines 411 and 415).      *)
MergeRecentesVendas(df_alterados, df_cancelados) ==
    LET n1 == IF df_alterados # <<>>
              THEN Concatenar(<<>>, PreencherStatus(df_alterados))
              ELSE <<>>
    IN IF df_cancelados # <<>> /\ HasCol(df_cancelados, "tipoCancelamento")
       THEN Concatenar(Concatenar(n1, Devolvidas(df_cancelados)),
                       Excluidas(df_cancelados))
       ELSE n1

ReconciliarSemDeduplicar(existente, dados, r_canc) ==
    existente \o MergePeriodoVendas(dados, r_canc)

(* Lines 347-376: the table a backfill window leaves, before the write.     *)
ReconciliarPeriodo(existente, dados, r_canc) ==
    LET periodo == MergePeriodoVendas(dados, r_canc)
    IN IF periodo # <<>>
       THEN DropDuplicatesLast(existente \o periodo, "numeroNota")
       ELSE existente

(* Lines 434-460: df_final of an incremental run.                           *)
ReconciliarRecentes(df_intermediario, df_alterados, df_cancelados) ==
    DropDuplicatesLast(
        Concatenar(df_intermediario,
                   MergeRecentesVendas(df_alterados, df_cancelados)),
        "numeroNota")

----------------------------------------------------------------------------
(* Values the variables hold while the part they belong to is not running  *)

DiscoVazio ==
    /\ vendas = <<>>
    /\ compras = <<>>
    /\ estado = [t \in {"carga_historica_vendas", "carga_historica_compras"} |-> NaN]

CargaParada ==
    /\ tarefa = "nenhuma"
    /\ data_inicio_loop = 0
    /\ data_atual_periodo = 0
    /\ data_fim_loop = 0
    /\ df_existente = <<>>
    /\ relogio = 0

HistVazia ==
    /\ cpEntrada = NaN
    /\ buscas = {}
    /\ cpAntes = NaN
    /\ tabAntes = <<>>
    /\ falhas = {}
    /\ desfecho = "nenhum"

MergeParado ==
    /\ dados_alterados = Lista(<<>>)
    /\ dados_cancelados = Lista(<<>>)
    /\ df_vendas_periodo = <<>>
    /\ rodada = 0

EstoqueParado ==
    /\ produtos = <<>>
    /\ dados_estoque = Lista(<<>>)

OrquestradorParado ==
    /\ tabelas_encontradas = {}
    /\ agora = 0
    /\ proxima_exec = <<>>
    /\ indice = 0
    /\ devidas = {}
    /\ executadas = <<>>
    /\ carga_abortada = {}

AnaliticoParado ==
    /\ vendedores = <<>>
    /\ vendas_processadas = <<>>

RequisicaoParada ==
    /\ headers = {}
    /\ auth_headers = {}
    /\ ciclo = 0
    /\ tentativa = 0
    /\ eventos = <<>>

PaginaParada ==
    /\ params = {}
    /\ todos_os_dados = <<>>
    /\ primeiro_registro = 0
    /\ pagina_de_dados = Lista(<<>>)
    /\ requisicoes = <<>>
    /\ retorno = Lista(<<>>)

----------------------------------------------------------------------------
(* SpecMerge: one call of the reconciliation on every pair of responses    *)
(* with at most MaxRegistros records in total.                             *)

ParesDeRespostas ==
    UNION {SeqAte(DictsVenda(ValoresVenda, {NaN, <<"OK">>}), n)
             \X SeqAte(DictsCancelamento(ValoresCancelamento, Tipos), MaxRegistros - n)
           : n \in 0..MaxRegistros}

InitMerge ==
    /\ DiscoVazio /\ OrquestradorParado /\ AnaliticoParado /\ RequisicaoParada /\ EstoqueParado /\ PaginaParada /\ CargaParada /\ HistVazia
    /\ pc = "merge"
    /\ alvo \in {"carga_historica", "recentes"}
    /\ \E par \in ParesDeRespostas :
          /\ dados_alterados = Lista(par[1])
          /\ dados_cancelados = Lista(par[2])
    /\ df_vendas_periodo = <<>>
    /\ rodada = 0

(* the reconciliation of realizar_carga_historica_vendas, empty table *)
MergeCarga ==
    /\ pc = "merge" /\ alvo = "carga_historica"
    /\ df_vendas_periodo' = ReconciliarPeriodo(<<>>, dados_alterados.dados, dados_cancelados)
    /\ pc' = "fim"
    /\ UNCHANGED <<varsDisco, tarefa, data_inicio_loop, data_atual_periodo,
                   data_fim_loop, df_existente, relogio, varsHist, alvo, varsEstoque, varsPagina, varsRequisicao, varsOrquestrador, varsAnalitico,
                   dados_alterados, dados_cancelados, rodada>>

(* the reconciliation of atualizar_vendas_recentes, no other row left *)
MergeRecentes ==
    /\ pc = "merge" /\ alvo = "recentes"
    /\ df_vendas_periodo' =
          ReconciliarRecentes(<<>>, dados_alterados.dados, dados_cancelados.dados)
    /\ pc' = "fim"
    /\ UNCHANGED <<varsDisco, tarefa, data_inicio_loop, data_atual_periodo,
                   data_fim_loop, df_existente, relogio, varsHist, alvo, varsEstoque, varsPagina, varsRequisicao, varsOrquestrador, varsAnalitico,
                   dados_alterados, dados_cancelados, rodada>>

NextMerge == MergeCarga \/ MergeRecentes

SpecMerge == InitMerge /\ [][NextMerge]_vars

----------------------------------------------------------------------------
(* Spec: the historical loads, realizar_carga_historica_vendas and          *)
(* realizar_carga_historica_compras, called again and again by a process    *)
(* that can be killed between any two steps.  The two loads share no table, *)
(* no checkpoint file and no local; a behaviour follows one of them (alvo). *)

RespostasVenda ==
    {None} \cup {Lista(l) : l \in SeqAte(DictsVenda({<<50>>}, {<<"OK">>}), MaxCarga)}

RespostasCancelamento ==
    {None} \cup {Lista(l) :
                   l \in SeqAte(DictsCancelamento({<<70>>}, {<<"D">>, <<"E">>}), MaxCarga)}

RespostasCompra == {None} \cup {Lista(l) : l \in SeqAte(DictsCompra, MaxCarga)}

Min(a, b) == IF a < b THEN a ELSE b

(* lines 143-145: a checkpoint file cut short by a kill between open(.., 'w') *)
(* and the end of json.dump: it exists and is not valid JSON                *)
Corrompido == <<-1>>

(* lines 150-170: _carregar_estado; json.JSONDecodeError gives {}           *)
CarregarEstado(arquivo) == IF arquivo = Corrompido THEN NaN ELSE arquivo

RetomadaNoMesmoDia(cp) ==
    IF cp # NaN THEN cp[1] ELSE DataInicioHistorico

RetomadaNoDiaSeguinte(cp) ==
    IF cp # NaN THEN cp[1] + 1 ELSE DataInicioHistorico

(* lines 315-319 / 680-683: data_inicio_loop *)
PontoDeRetomada(cp) ==
    IF cp # NaN THEN cp[1] + SALES_FILE_DAYS_INTERVAL ELSE DataInicioHistorico

NuncaAborta(r) == FALSE

(* lines 343-345 / 701-703: if dados is None: return *)
AbortaPorFalha(r) == ~r.ok

SegueAposFalhaDeEscrita == "checkpoint"

(* lines 379-381 / 714-716: except Exception around the write: log, return *)
AposFalhaDeEscrita == "ocioso"

PeriodoVazioRetorna == "ocioso"

(* lines 382-386 / 705-706 and 718: a period with nothing to save only logs *)
(* and goes on to _salvar_estado                                            *)
AposPeriodoVazio == "checkpoint"

FimSemTruncar == data_atual_periodo + SALES_FILE_DAYS_INTERVAL - 1

(* lines 328-329: data_fim_periodo *)
FimDoPeriodo ==
    Min(data_atual_periodo + SALES_FILE_DAYS_INTERVAL - 1, data_fim_loop)

(* the fetches of the period that returned None, lines 340-341 *)
FalhasDeBusca(rv, rc) ==
    (IF rv.ok THEN {} ELSE {"primaria"}) \cup (IF rc.ok THEN {} ELSE {"cancelamentos"})

TabelaDe(t) == IF t = "carga_historica_vendas" THEN vendas ELSE compras

Init ==
    /\ DiscoVazio /\ OrquestradorParado /\ AnaliticoParado /\ RequisicaoParada /\ EstoqueParado /\ PaginaParada /\ CargaParada /\ HistVazia /\ MergeParado
    /\ pc = "ocioso"
    /\ alvo \in {"carga_historica_vendas", "carga_historica_compras"}

(* lines 311-324 / 677-688 *)
IniciarCarga ==
    /\ pc = "ocioso"
    /\ alvo \in {"carga_historica_vendas", "carga_historica_compras"}
    /\ \E hoje \in relogio..MaxDia :
          /\ relogio' = hoje
          /\ data_fim_loop' = hoje
    /\ tarefa' = alvo
    /\ data_inicio_loop' = PontoDeRetomada(CarregarEstado(estado[alvo]))
    /\ data_atual_periodo' = PontoDeRetomada(CarregarEstado(estado[alvo]))
    /\ df_existente' = TabelaDe(alvo)
    /\ pc' = "laco"
    /\ cpEntrada' = CarregarEstado(estado[alvo])
    /\ buscas' = {}
    /\ cpAntes' = estado[alvo]
    /\ tabAntes' = TabelaDe(alvo)
    /\ falhas' = {}
    /\ UNCHANGED <<varsDisco, desfecho, alvo, varsEstoque, varsPagina, varsRequisicao, varsOrquestrador, varsAnalitico, varsMerge>>

(* lines 327-383: one period of the sales load, up to the write *)
ProcessarPeriodoVendas ==
    /\ pc = "laco" /\ tarefa = "carga_historica_vendas"
    /\ data_atual_periodo <= data_fim_loop
    /\ \E rv \in RespostasVenda, rc \in RespostasCancelamento :
          /\ buscas' = buscas \cup {<<data_atual_periodo, FimDoPeriodo>>}
          /\ cpAntes' = estado[tarefa]
          /\ tabAntes' = vendas
          /\ IF AbortaPorFalha(rv)
             THEN /\ pc' = "ocioso"
                  /\ desfecho' = "falha_busca"
                  /\ falhas' = FalhasDeBusca(rv, rc)
                  /\ df_vendas_periodo' = <<>>
                  /\ UNCHANGED <<vendas, df_existente>>
             ELSE IF MergePeriodoVendas(rv.dados, rc) # <<>>
             THEN \/ /\ vendas' = ReconciliarPeriodo(df_existente, rv.dados, rc)
                     /\ df_existente' = vendas'
                     /\ pc' = "checkpoint"
                     /\ falhas' = FalhasDeBusca(rv, rc)
                     /\ df_vendas_periodo' = MergePeriodoVendas(rv.dados, rc)
                     /\ UNCHANGED desfecho
                  \/ /\ pc' = AposFalhaDeEscrita  \* _escrever_para_db raised, line 379
                     /\ desfecho' = "falha_escrita"
                     /\ falhas' = FalhasDeBusca(rv, rc) \cup {"escrita"}
                     /\ df_vendas_periodo' = <<>>     \* the run returned
                     /\ UNCHANGED <<vendas, df_existente>>
             ELSE /\ pc' = AposPeriodoVazio
                  /\ falhas' = FalhasDeBusca(rv, rc)
                  /\ df_vendas_periodo' = <<>>
                  /\ UNCHANGED <<vendas, df_existente, desfecho>>
    /\ UNCHANGED <<compras, estado, tarefa, data_inicio_loop, data_atual_periodo,
                   data_fim_loop, relogio, cpEntrada, alvo, varsEstoque, varsPagina, varsRequisicao, varsOrquestrador, varsAnalitico,
                   dados_alterados, dados_cancelados, rodada>>

(* lines 690-716: one period of the purchases load, up to the write *)
ProcessarPeriodoCompras ==
    /\ pc = "laco" /\ tarefa = "carga_historica_compras"
    /\ data_atual_periodo <= data_fim_loop
    /\ \E r \in RespostasCompra :
          /\ buscas' = buscas \cup {<<data_atual_periodo, FimDoPeriodo>>}
          /\ cpAntes' = estado[tarefa]
          /\ tabAntes' = compras
          /\ IF AbortaPorFalha(r)
             THEN /\ pc' = "ocioso"
                  /\ desfecho' = "falha_busca"
                  /\ falhas' = {"primaria"}
                  /\ df_vendas_periodo' = <<>>
                  /\ UNCHANGED <<compras, df_existente>>
             ELSE IF r.dados # <<>>
             THEN \/ /\ compras' = DropDuplicatesLast(df_existente \o r.dados,
                                                      "numeroNotaFiscal")
                     /\ df_existente' = compras'
                     /\ pc' = "checkpoint"
                     /\ falhas' = {}
                     /\ df_vendas_periodo' = r.dados    \* df_compras_periodo
                     /\ UNCHANGED desfecho
                  \/ /\ pc' = AposFalhaDeEscrita  \* _escrever_para_db raised, line 714
                     /\ desfecho' = "falha_escrita"
                     /\ falhas' = {"escrita"}
                     /\ df_vendas_periodo' = <<>>
                     /\ UNCHANGED <<compras, df_existente>>
             ELSE /\ pc' = AposPeriodoVazio
                  /\ falhas' = {}
                  /\ df_vendas_periodo' = <<>>
                  /\ UNCHANGED <<compras, df_existente, desfecho>>
    /\ UNCHANGED <<vendas, estado, tarefa, data_inicio_loop, data_atual_periodo,
                   data_fim_loop, relogio, cpEntrada, alvo, varsEstoque, varsPagina, varsRequisicao, varsOrquestrador, varsAnalitico,
                   dados_alterados, dados_cancelados, rodada>>

(* lines 386-388 / 718-719: _salvar_estado, which logs and swallows its own *)
(* failure (lines 147-148), then the step to the next period                *)
SalvarCheckpoint ==
    /\ pc = "checkpoint"
    /\ \/ estado' = [estado EXCEPT ![tarefa] = <<data_atual_periodo>>]
       \/ UNCHANGED estado
    /\ data_atual_periodo' = data_atual_periodo + SALES_FILE_DAYS_INTERVAL
    /\ pc' = "laco"
    /\ df_vendas_periodo' = <<>>      \* the frame of the period is not read again
    /\ UNCHANGED <<vendas, compras, tarefa, data_inicio_loop, data_fim_loop,
                   df_existente, relogio, varsHist, alvo, varsEstoque, varsPagina, varsRequisicao, varsOrquestrador, varsAnalitico,
                   dados_alterados, dados_cancelados, rodada>>

SemLimpar(arquivo) == arquivo

(* lines 172-182: _limpar_estado removes the checkpoint file when it exists *)
LimparEstado(arquivo) == NaN

(* lines 390-391 / 721-722: the loop test fails, _limpar_estado *)
ConcluirCarga ==
    /\ pc = "laco"
    /\ data_atual_periodo > data_fim_loop
    /\ estado' = [estado EXCEPT ![tarefa] = LimparEstado(estado[tarefa])]
    /\ pc' = "ocioso"
    /\ desfecho' = "concluida"
    /\ tarefa' = "nenhuma"
    /\ data_inicio_loop' = 0
    /\ data_atual_periodo' = 0
    /\ data_fim_loop' = 0
    /\ df_existente' = <<>>
    /\ cpEntrada' = NaN
    /\ buscas' = {}
    /\ cpAntes' = NaN
    /\ tabAntes' = <<>>
    /\ falhas' = {}
    /\ UNCHANGED <<vendas, compras, relogio, alvo, varsEstoque, varsPagina, varsRequisicao, varsOrquestrador, varsAnalitico, varsMerge>>

(* the process is killed inside a load: the files stay, the locals are     *)
(* lost; a kill inside _salvar_estado leaves the checkpoint file cut short  *)
Interromper ==
    /\ pc \in {"laco", "checkpoint"}
    /\ \/ UNCHANGED estado
       \/ /\ pc = "checkpoint"
          /\ estado' = [estado EXCEPT ![tarefa] = Corrompido]
    /\ pc' = "ocioso"
    /\ desfecho' = IF /\ pc = "laco"
                      /\ estado[tarefa] # NaN
                      /\ estado[tarefa] = <<data_atual_periodo - SALES_FILE_DAYS_INTERVAL>>
                   THEN "interrompida_apos_checkpoint"
                   ELSE "interrompida"
    /\ tarefa' = "nenhuma"
    /\ data_inicio_loop' = 0
    /\ data_atual_periodo' = 0
    /\ data_fim_loop' = 0
    /\ df_existente' = <<>>
    /\ cpEntrada' = NaN
    /\ buscas' = {}
    /\ cpAntes' = NaN
    /\ tabAntes' = <<>>
    /\ falhas' = {}
    /\ df_vendas_periodo' = <<>>
    /\ UNCHANGED <<vendas, compras, relogio, alvo, varsEstoque, varsPagina, varsRequisicao, varsOrquestrador, varsAnalitico,
                   dados_alterados, dados_cancelados, rodada>>

Next ==
    \/ IniciarCarga
    \/ ProcessarPeriodoVendas
    \/ ProcessarPeriodoCompras
    \/ SalvarCheckpoint
    \/ ConcluirCarga
    \/ Interromper

Spec == Init /\ [][Next]_vars

----------------------------------------------------------------------------
(* SpecSync: the table effect of the tasks that write 'vendas' and          *)
(* 'compras': one period of a historical load (its loop and checkpoint are  *)
(* in Spec) and the incremental updates.  A task runs to its end, its       *)
(* responses stay visible until it returns to the polling loop, and it may  *)
(* be run once more on the same responses.  The two tables are written by   *)
(* disjoint tasks; a behaviour follows one of them (alvo).                  *)

ChavesDe(df, col) == {df[i][col] : i \in DOMAIN df}

(* pd.DataFrame(dados) if dados else pd.DataFrame(), lines 411 and 415 *)
DadosOuVazio(r) == IF r.ok THEN r.dados ELSE <<>>

EscreverAppend(tabela, df) == tabela \o df

(* _escrever_para_db(df, nome, if_exists='replace'), lines 79-97: the table *)
(* becomes the rows of df; with no rows the table is dropped.               *)
EscreverReplace(tabela, df) == df

(* the table made of the rows of the run alone *)
SubstituirPelasRecentes(tabela, r_alt, r_canc) ==
    [desfecho |-> "escrita",
     df_final |-> ReconciliarRecentes(<<>>, DadosOuVazio(r_alt), DadosOuVazio(r_canc))]

(* atualizar_vendas_recentes, lines 403-461, up to the write *)
AtualizarVendasRecentes(tabela, r_alt, r_canc) ==
    LET df_alterados == DadosOuVazio(r_alt)
        df_cancelados == DadosOuVazio(r_canc)
        ids_para_remover == ChavesDe(df_alterados, "numeroNota")
                              \cup ChavesDe(df_cancelados, "numeroNota")
        df_intermediario ==
            Selecionar(tabela, {i \in DOMAIN tabela :
                                  tabela[i].numeroNota \notin ids_para_remover})
    IN IF df_alterados = <<>> /\ df_cancelados = <<>>
       THEN [desfecho |-> "sem_dados", df_final |-> tabela]
       ELSE IF tabela = <<>>       \* df_intermediario['numeroNota'], line 431
       THEN [desfecho |-> "KeyError", df_final |-> tabela]
       ELSE [desfecho |-> "escrita",
             df_final |-> ReconciliarRecentes(df_intermediario, df_alterados,
                                              df_cancelados)]

(* atualizar_compras_recentes, lines 733-754, up to the write *)
AtualizarComprasRecentes(tabela, r_alt) ==
    LET df_alterados == DadosOuVazio(r_alt)
        ids_para_remover == ChavesDe(df_alterados, "numeroNotaFiscal")
        df_intermediario ==
            Selecionar(tabela, {i \in DOMAIN tabela :
                                  tabela[i].numeroNotaFiscal \notin ids_para_remover})
    IN IF df_alterados = <<>>
       THEN [desfecho |-> "sem_dados", df_final |-> tabela]
       ELSE IF tabela = <<>>       \* df_existente['numeroNotaFiscal'], line 750
       THEN [desfecho |-> "KeyError", df_final |-> tabela]
       ELSE [desfecho |-> "escrita",
             df_final |-> DropDuplicatesLast(df_intermediario \o df_alterados,
                                             "numeroNotaFiscal")]

(* realizar_carga_historica_vendas, lines 340-378, one period up to the write *)
CargaPeriodoVendas(tabela, r_vendas, r_canc) ==
    IF AbortaPorFalha(r_vendas)
    THEN [desfecho |-> "falha_busca", df_final |-> tabela]
    ELSE IF MergePeriodoVendas(r_vendas.dados, r_canc) = <<>>
    THEN [desfecho |-> "sem_dados", df_final |-> tabela]
    ELSE [desfecho |-> "escrita",
          df_final |-> ReconciliarPeriodo(tabela, r_vendas.dados, r_canc)]

(* realizar_carga_historica_compras, lines 699-712, one period up to the write *)
CargaPeriodoCompras(tabela, r_compras) ==
    IF AbortaPorFalha(r_compras)
    THEN [desfecho |-> "falha_busca", df_final |-> tabela]
    ELSE IF r_compras.dados = <<>>
    THEN [desfecho |-> "sem_dados", df_final |-> tabela]
    ELSE [desfecho |-> "escrita",
          df_final |-> DropDuplicatesLast(tabela \o r_compras.dados,
                                          "numeroNotaFiscal")]

RespostasDeVendas ==
    LET listas ==
          UNION {SeqAte(DictsVenda({<<50>>}, {NaN, <<"OK">>}), n)
                   \X SeqAte(DictsCancelamento({<<70>>}, Tipos), MaxRegistros - n)
                 : n \in 0..MaxRegistros}
    IN {<<Lista(p[1]), Lista(p[2])>> : p \in listas}
         \cup {<<None, Lista(p[2])>> : p \in {q \in listas : q[1] = <<>>}}
         \cup {<<Lista(p[1]), None>> : p \in {q \in listas : q[2] = <<>>}}
         \cup {<<None, None>>}

RespostasDeCompras ==
    {None} \cup {Lista(l) : l \in SeqAte(DictsCompra, MaxRegistros)}

InitSync ==
    /\ DiscoVazio /\ OrquestradorParado /\ AnaliticoParado /\ RequisicaoParada /\ EstoqueParado /\ PaginaParada /\ CargaParada /\ HistVazia /\ MergeParado
    /\ pc = "ocioso"
    /\ alvo \in {"vendas", "compras"}

(* what a finished task leaves: the table written (or not, when             *)
(* _escrever_para_db raised, lines 99-101), its outcome, its responses      *)
Terminar(nome, tabela, res, r_alt, r_canc, n) ==
    /\ \/ /\ res.desfecho = "escrita"
          /\ IF alvo = "vendas"
             THEN vendas' = EscreverReplace(tabela, res.df_final) /\ UNCHANGED compras
             ELSE compras' = EscreverReplace(tabela, res.df_final) /\ UNCHANGED vendas
          /\ desfecho' = res.desfecho
       \/ /\ res.desfecho # "escrita"
          /\ UNCHANGED <<vendas, compras>>
          /\ desfecho' = res.desfecho
       \/ /\ res.desfecho = "escrita" /\ res.df_final # <<>>
          /\ UNCHANGED <<vendas, compras>>
          /\ desfecho' = "falha_escrita"
    /\ tarefa' = nome
    /\ tabAntes' = tabela
    /\ dados_alterados' = r_alt
    /\ dados_cancelados' = r_canc
    /\ rodada' = n
    /\ pc' = "fim_tarefa"
    /\ UNCHANGED <<estado, data_inicio_loop, data_atual_periodo, data_fim_loop,
                   df_existente, relogio, cpEntrada, buscas, cpAntes, falhas,
                   alvo, varsEstoque, varsPagina, varsRequisicao, varsOrquestrador, varsAnalitico, df_vendas_periodo>>

PeriodoVendas ==
    /\ pc = "ocioso" /\ alvo = "vendas"
    /\ \E r \in RespostasDeVendas :
          Terminar("carga_historica_vendas", vendas,
                   CargaPeriodoVendas(vendas, r[1], r[2]), r[1], r[2], 1)

PeriodoCompras ==
    /\ pc = "ocioso" /\ alvo = "compras"
    /\ \E r \in RespostasDeCompras :
          Terminar("carga_historica_compras", compras,
                   CargaPeriodoCompras(compras, r), r, Lista(<<>>), 1)

AtualizarVendas ==
    /\ pc = "ocioso" /\ alvo = "vendas"
    /\ \E r \in RespostasDeVendas :
          Terminar("atualizar_vendas_recentes", vendas,
                   AtualizarVendasRecentes(vendas, r[1], r[2]), r[1], r[2], 1)

AtualizarCompras ==
    /\ pc = "ocioso" /\ alvo = "compras"
    /\ \E r \in RespostasDeCompras :
          Terminar("atualizar_compras_recentes", compras,
                   AtualizarComprasRecentes(compras, r), r, Lista(<<>>), 1)

(* the same task again, the upstream answering as before *)
RepetirAtualizarVendas ==
    /\ pc = "fim_tarefa" /\ rodada = 1 /\ desfecho # "falha_escrita"
    /\ tarefa = "atualizar_vendas_recentes"
    /\ Terminar(tarefa, vendas,
                AtualizarVendasRecentes(vendas, dados_alterados, dados_cancelados),
                dados_alterados, dados_cancelados, 2)

RepetirAtualizarCompras ==
    /\ pc = "fim_tarefa" /\ rodada = 1 /\ desfecho # "falha_escrita"
    /\ tarefa = "atualizar_compras_recentes"
    /\ Terminar(tarefa, compras,
                AtualizarComprasRecentes(compras, dados_alterados),
                dados_alterados, dados_cancelados, 2)

(* the process stopped after the write of a period and before              *)
(* _salvar_estado (lines 377-386 / 712-718); the load started again reads   *)
(* the table (lines 324 / 688) and comes to the same period, the upstream   *)
(* answering as before                                                      *)
ReprocessarPeriodoVendas ==
    /\ pc = "fim_tarefa" /\ rodada = 1 /\ desfecho = "escrita"
    /\ tarefa = "carga_historica_vendas"
    /\ Terminar(tarefa, vendas,
                CargaPeriodoVendas(vendas, dados_alterados, dados_cancelados),
                dados_alterados, dados_cancelados, 2)

ReprocessarPeriodoCompras ==
    /\ pc = "fim_tarefa" /\ rodada = 1 /\ desfecho = "escrita"
    /\ tarefa = "carga_historica_compras"
    /\ Terminar(tarefa, compras,
                CargaPeriodoCompras(compras, dados_alterados),
                dados_alterados, dados_cancelados, 2)

(* back in the polling loop: the locals of the task are gone *)
Retornar ==
    /\ pc = "fim_tarefa"
    /\ pc' = "ocioso"
    /\ tarefa' = "nenhuma"
    /\ tabAntes' = <<>>
    /\ desfecho' = "nenhum"
    /\ dados_alterados' = Lista(<<>>)
    /\ dados_cancelados' = Lista(<<>>)
    /\ dados_estoque' = Lista(<<>>)
    /\ rodada' = 0
    /\ UNCHANGED <<varsDisco, data_inicio_loop, data_atual_periodo, data_fim_loop,
                   df_existente, relogio, cpEntrada, buscas, cpAntes, falhas,
                   alvo, produtos, varsPagina, varsRequisicao, varsOrquestrador, varsAnalitico, df_vendas_periodo>>

NextSync ==
    \/ PeriodoVendas
    \/ PeriodoCompras
    \/ AtualizarVendas
    \/ AtualizarCompras
    \/ RepetirAtualizarVendas
    \/ RepetirAtualizarCompras
    \/ ReprocessarPeriodoVendas
    \/ ReprocessarPeriodoCompras
    \/ Retornar

SpecSync == InitSync /\ [][NextSync]_vars

----------------------------------------------------------------------------
(* SpecEstoque: the products table, loaded by sincronizar_produtos(True)    *)
(* and patched by sincronizar_estoque.  A product code is a JSON number or  *)
(* a JSON string; tipo says which and texto is its decimal text.  A column  *)
(* of numbers is stored and read back as numbers, a column of strings as    *)
(* strings.                                                                 *)

Codigo(t, x) == [tipo |-> t, texto |-> x]

(* Series.astype(str): str(1) is "1", str("1") is "1" *)
AsTypeStr(c) == Codigo("str", c.texto)

DictsProduto(t) ==
    [codigo : {Codigo(t, x) : x \in Codigos},
     nome : {<<"A">>, <<"B">>},
     quantidadeEstoque : {<<5>>}]

DictsEstoque(t) ==
    [codigoProduto : {Codigo(t, x) : x \in Codigos},
     quantidadeEstoque : {NaN, <<7>>, <<9>>}]

(* the product master lists a code once *)
RespostasDeProdutos ==
    {None} \cup
    {Lista(l) : l \in {m \in UNION {SeqAte(DictsProduto(t), MaxProdutos)
                                      : t \in TiposDeCodigo} :
                         \A i, j \in DOMAIN m : m[i].codigo = m[j].codigo => i = j}}

RespostasDeEstoque ==
    {None} \cup
    {Lista(l) : l \in UNION {SeqAte(DictsEstoque(t), MaxEstoque)
                               : t \in TiposDeCodigo}}

(* sincronizar_produtos(carga_inicial=True), lines 475-482, up to the write *)
CargaInicialProdutos(tabela, r) ==
    IF ~r.ok
    THEN [desfecho |-> "falha_busca", df_final |-> tabela]
    ELSE [desfecho |-> "escrita", df_final |-> r.dados]

(* df_produtos.update(df_estoque_update), line 663, both indexed by codigo: *)
(* a product takes the quantidadeEstoque of the update row of its code when *)
(* that value is not NaN                                                    *)
Update(df_produtos, df_estoque_update) ==
    [i \in DOMAIN df_produtos |->
       LET achados == {j \in DOMAIN df_estoque_update :
                         /\ df_estoque_update[j].codigo = df_produtos[i].codigo
                         /\ df_estoque_update[j].quantidadeEstoque # NaN}
       IN IF achados = {}
          THEN df_produtos[i]
          ELSE [df_produtos[i] EXCEPT !.quantidadeEstoque =
                  df_estoque_update[CHOOSE j \in achados : TRUE].quantidadeEstoque]]

(* sincronizar_estoque, lines 631-666, up to the write *)
SincronizarEstoque(tabela, r) ==
    LET df_estoque == DadosOuVazio(r)
        df_produtos ==
            [i \in DOMAIN tabela |->
               [tabela[i] EXCEPT !.codigo = AsTypeStr(tabela[i].codigo)]]
        df_estoque_update ==
            [j \in DOMAIN df_estoque |->
               [codigo |-> AsTypeStr(df_estoque[j].codigoProduto),
                quantidadeEstoque |-> df_estoque[j].quantidadeEstoque]]
    IN IF df_estoque = <<>>
       THEN [desfecho |-> "sem_dados", df_final |-> tabela]
       ELSE IF tabela = <<>>
       THEN [desfecho |-> "sem_produtos", df_final |-> tabela]
       ELSE IF ~HasCol(df_estoque, "quantidadeEstoque")   \* line 651
       THEN [desfecho |-> "KeyError", df_final |-> tabela]
       ELSE IF \E i, j \in DOMAIN df_estoque_update :     \* update, line 663
                 i # j /\ df_estoque_update[i].codigo = df_estoque_update[j].codigo
       THEN [desfecho |-> "ValueError", df_final |-> tabela]
       ELSE [desfecho |-> "escrita",
             df_final |-> Update(df_produtos, df_estoque_update)]

InitEstoque ==
    /\ DiscoVazio /\ OrquestradorParado /\ AnaliticoParado /\ RequisicaoParada /\ EstoqueParado /\ PaginaParada /\ CargaParada /\ HistVazia /\ MergeParado
    /\ pc = "ocioso"
    /\ alvo = "produtos"

TerminarEmProdutos(nome, res, r) ==
    /\ \/ /\ res.desfecho = "escrita"
          /\ produtos' = EscreverReplace(produtos, res.df_final)
          /\ desfecho' = res.desfecho
       \/ /\ res.desfecho # "escrita"
          /\ UNCHANGED produtos
          /\ desfecho' = res.desfecho
       \/ /\ res.desfecho = "escrita" /\ res.df_final # <<>>
          /\ UNCHANGED produtos
          /\ desfecho' = "falha_escrita"
    /\ tarefa' = nome
    /\ tabAntes' = produtos
    /\ dados_estoque' = r
    /\ rodada' = 1
    /\ pc' = "fim_tarefa"
    /\ UNCHANGED <<varsDisco, data_inicio_loop, data_atual_periodo, data_fim_loop,
                   df_existente, relogio, cpEntrada, buscas, cpAntes, falhas,
                   alvo, dados_alterados, dados_cancelados, df_vendas_periodo,
                   varsPagina, varsRequisicao, varsOrquestrador, varsAnalitico>>

SincronizarProdutos ==
    /\ pc = "ocioso" /\ alvo = "produtos"
    /\ \E r \in RespostasDeProdutos :
          TerminarEmProdutos("sincronizar_produtos",
                             CargaInicialProdutos(produtos, r), Lista(<<>>))

SincronizarEstoqueDoDia ==
    /\ pc = "ocioso" /\ alvo = "produtos"
    /\ \E r \in RespostasDeEstoque :
          TerminarEmProdutos("sincronizar_estoque",
                             SincronizarEstoque(produtos, r), r)

NextEstoque ==
    \/ SincronizarProdutos
    \/ SincronizarEstoqueDoDia
    \/ Retornar

SpecEstoque == InitEstoque /\ [][NextEstoque]_vars

----------------------------------------------------------------------------
(* SpecPagina: one call of _buscar_dados_paginados.  The upstream holds     *)
(* numbered records; the page that answers a request is a run of them that  *)
(* starts after the offset asked for, of one of the sizes in Tamanhos, and  *)
(* the upstream has at most MaxPaginas pages.                               *)

Tamanhos == {0, 1, 2, 500, quantidade_registros - 1, quantidade_registros}

ParametrosDoChamador ==
    {{}, {"dataInicial", "dataFinal"}, {"dataEmissaoInicial", "dataEmissaoFinal"}}

PaginaDe(offset, n) == [i \in 1..n |-> offset + i]

MesmoRegistro(p) == p

(* primeiro_registro += quantidade_registros, line 285 *)
ProximoRegistro(p) == p + quantidade_registros

(* len(pagina_de_dados) < quantidade_registros, line 282 *)
UltimaPagina(pagina) == Len(pagina) < quantidade_registros

InitPagina ==
    /\ DiscoVazio /\ OrquestradorParado /\ AnaliticoParado /\ RequisicaoParada /\ EstoqueParado /\ CargaParada /\ HistVazia /\ MergeParado
    /\ pc = "laco_paginas"
    /\ alvo = "paginacao"
    /\ params \in ParametrosDoChamador
    /\ todos_os_dados = <<>>
    /\ primeiro_registro = 0
    /\ pagina_de_dados = Lista(<<>>)
    /\ requisicoes = <<>>
    /\ retorno = Lista(<<>>)

(* lines 271-275: the request with the pagination parameters, and what      *)
(* realizar_requisicao_segura returns for it: a page, or None               *)
PedirPagina ==
    /\ pc = "laco_paginas"
    /\ Len(requisicoes) < MaxPaginas
    /\ \E r \in {None} \cup
                {Lista(PaginaDe(primeiro_registro, n)) :
                   n \in {t \in Tamanhos :
                            Len(requisicoes) + 1 = MaxPaginas
                              => t < quantidade_registros}} :
          /\ pagina_de_dados' = r
          /\ requisicoes' =
               Append(requisicoes,
                      [params |-> params \cup {"primeiroRegistro", "quantidadeRegistros"},
                       primeiroRegistro |-> primeiro_registro,
                       quantidadeRegistros |-> quantidade_registros,
                       ok |-> r.ok,
                       recebidos |-> Len(r.dados)])
    /\ pc' = "pagina"
    /\ UNCHANGED <<varsDisco, tarefa, data_inicio_loop, data_atual_periodo,
                   data_fim_loop, df_existente, relogio, varsHist, alvo,
                   varsMerge, varsEstoque, params, todos_os_dados,
                   primeiro_registro, retorno, varsRequisicao, varsOrquestrador, varsAnalitico>>

(* lines 277-292 *)
TratarPagina ==
    /\ pc = "pagina"
    /\ IF ~pagina_de_dados.ok
       THEN /\ retorno' = None
            /\ pc' = "retornou"
            /\ UNCHANGED <<todos_os_dados, primeiro_registro>>
       ELSE IF pagina_de_dados.dados = <<>>
       THEN /\ retorno' = Lista(todos_os_dados)
            /\ pc' = "retornou"
            /\ UNCHANGED <<todos_os_dados, primeiro_registro>>
       ELSE /\ todos_os_dados' = todos_os_dados \o pagina_de_dados.dados
            /\ IF UltimaPagina(pagina_de_dados.dados)
               THEN /\ retorno' = Lista(todos_os_dados')
                    /\ pc' = "retornou"
                    /\ UNCHANGED primeiro_registro
               ELSE /\ primeiro_registro' = ProximoRegistro(primeiro_registro)
                    /\ pc' = "laco_paginas"
                    /\ UNCHANGED retorno
    /\ UNCHANGED <<varsDisco, tarefa, data_inicio_loop, data_atual_periodo,
                   data_fim_loop, df_existente, relogio, varsHist, alvo,
                   varsMerge, varsEstoque, params, pagina_de_dados, requisicoes,
                   varsRequisicao, varsOrquestrador, varsAnalitico>>

NextPagina ==
    \/ PedirPagina
    \/ TratarPagina

SpecPagina == InitPagina /\ [][NextPagina]_vars

----------------------------------------------------------------------------
(* SpecBusca: _buscar_dados_paginados with the attempts of                  *)
(* realizar_requisicao_segura inside it.  A dict of headers is a set of     *)
(* <<name, value>> pairs with one pair per name.  An attempt succeeds with  *)
(* a JSON array as its body or raises a RequestException.                   *)

max_ciclos == 2
tentativas_por_ciclo == 5
intervalo_tentativas_s == 10
espera_entre_ciclos_min == 5

API_AUTH_TOKEN == "token configurado"

CabecalhoInjetado == <<"Authorization", <<"Bearer", API_AUTH_TOKEN>>>>

CabecalhosDoChamador ==
    {{},
     {<<"Accept", "application/json">>},
     {<<"Authorization", <<"Bearer", "outro token">>>>},
     {<<"Accept", "application/json">>,
      <<"Authorization", <<"Bearer", "outro token">>>>}}

(* dict.update: the entries of h are added, replacing those of the same name *)
DictUpdate(d, h) == {p \in d : \A q \in h : q[1] # p[1]} \cup h

(* lines 223-224 *)
AuthHeaders(h) ==
    IF h # {} THEN DictUpdate({CabecalhoInjetado}, h) ELSE {CabecalhoInjetado}

SempreUltimoCiclo(c) == TRUE

NuncaUltimoCiclo(c) == FALSE

(* ciclo < max_ciclos, lines 229 and 243 *)
UltimoCiclo(c) == ~(c < max_ciclos)

UltimaDeSeis(t) == ~(t < tentativas_por_ciclo + 1)

(* tentativa < tentativas_por_ciclo, lines 231 and 239 *)
UltimaTentativaDoCiclo(t) == ~(t < tentativas_por_ciclo)

Get(h, sucesso) == [tipo |-> "GET", headers |-> h, ok |-> sucesso, segundos |-> 0]
Sleep(s) == [tipo |-> "sleep", headers |-> {}, ok |-> FALSE, segundos |-> s]

InitBusca ==
    /\ DiscoVazio /\ OrquestradorParado /\ AnaliticoParado /\ EstoqueParado /\ CargaParada /\ HistVazia /\ MergeParado
    /\ pc = "laco_paginas"
    /\ alvo = "busca"
    /\ params \in ParametrosDoChamador
    /\ headers \in CabecalhosDoChamador
    /\ todos_os_dados = <<>>
    /\ primeiro_registro = 0
    /\ pagina_de_dados = Lista(<<>>)
    /\ requisicoes = <<>>
    /\ retorno = Lista(<<>>)
    /\ auth_headers = {}
    /\ ciclo = 0
    /\ tentativa = 0
    /\ eventos = <<>>

varsForaDaBusca ==
    <<varsDisco, tarefa, data_inicio_loop, data_atual_periodo, data_fim_loop,
      df_existente, relogio, varsHist, alvo, varsMerge, varsEstoque, params,
      headers, varsOrquestrador, varsAnalitico>>

RequisicaoFeita(r) ==
    Append(requisicoes,
           [params |-> params \cup {"primeiroRegistro", "quantidadeRegistros"},
            primeiroRegistro |-> primeiro_registro,
            quantidadeRegistros |-> quantidade_registros,
            ok |-> r.ok,
            recebidos |-> Len(r.dados)])

(* lines 271-275 and 217-230: the call of realizar_requisicao_segura *)
Chamar ==
    /\ pc = "laco_paginas"
    /\ Len(requisicoes) < MaxPaginas
    /\ auth_headers' = AuthHeaders(headers)
    /\ ciclo' = 1
    /\ tentativa' = 1
    /\ eventos' = <<>>
    /\ pc' = "tentativa"
    /\ UNCHANGED <<varsForaDaBusca, todos_os_dados, primeiro_registro,
                   pagina_de_dados, requisicoes, retorno>>

(* lines 232-236: requests.get, raise_for_status, return response.json() *)
Tentar ==
    /\ pc = "tentativa"
    /\ \/ \E n \in {t \in Tamanhos :
                      Len(requisicoes) + 1 = MaxPaginas => t < quantidade_registros} :
            /\ eventos' = Append(eventos, Get(auth_headers, TRUE))
            /\ pagina_de_dados' = Lista(PaginaDe(primeiro_registro, n))
            /\ requisicoes' = RequisicaoFeita(Lista(PaginaDe(primeiro_registro, n)))
            /\ pc' = "pagina"
       \/ /\ eventos' = Append(eventos, Get(auth_headers, FALSE))
          /\ pc' = "falhou"
          /\ UNCHANGED <<pagina_de_dados, requisicoes>>
    /\ UNCHANGED <<varsForaDaBusca, todos_os_dados, primeiro_registro, retorno,
                   auth_headers, ciclo, tentativa>>

(* lines 237-248: the except clause, the two loops and the final return *)
TratarFalha ==
    /\ pc = "falhou"
    /\ IF ~UltimaTentativaDoCiclo(tentativa)
       THEN /\ eventos' = Append(eventos, Sleep(intervalo_tentativas_s))
            /\ tentativa' = tentativa + 1
            /\ pc' = "tentativa"
            /\ UNCHANGED <<ciclo, pagina_de_dados, requisicoes>>
       ELSE IF ~UltimoCiclo(ciclo)
       THEN /\ eventos' = Append(eventos, Sleep(espera_entre_ciclos_min * 60))
            /\ ciclo' = ciclo + 1
            /\ tentativa' = 1
            /\ pc' = "tentativa"
            /\ UNCHANGED <<pagina_de_dados, requisicoes>>
       ELSE /\ pagina_de_dados' = None
            /\ requisicoes' = RequisicaoFeita(None)
            /\ pc' = "pagina"
            /\ UNCHANGED <<eventos, ciclo, tentativa>>
    /\ UNCHANGED <<varsForaDaBusca, todos_os_dados, primeiro_registro, retorno,
                   auth_headers>>

NextBusca ==
    \/ Chamar
    \/ Tentar
    \/ TratarFalha
    \/ TratarPagina

SpecBusca == InitBusca /\ [][NextBusca]_vars

(* requests.get has a timeout and every sleep is finite: a step that can be *)
(* taken is taken                                                           *)
SpecBuscaJusta == SpecBusca /\ WF_vars(NextBusca)

----------------------------------------------------------------------------
(* SpecOrquestrador: main() of src/orquestrador.py.  A load of the          *)
(* initialization phase is seen by how it ends and by whether it leaves its *)
(* table in the file; a task of the loop by whether it returns or raises    *)
(* and by the time it takes.  relogio counts minutes here and stops         *)
(* advancing at MaxMinuto, while the loop goes on.                          *)

TabelasEssenciais == {"vendas", "produtos", "vendedores", "compras", "fornecedores"}

CargasIniciais == <<"produtos", "vendedores", "fornecedores", "vendas", "compras">>

Tarefas == <<"vendas", "produtos", "estoque", "vendedores", "compras", "fornecedores">>

INTERVALO_VENDAS == 10
INTERVALO_COMPRAS == 15
INTERVALO_PRODUTOS == 15
INTERVALO_ESTOQUE == 10
INTERVALO_VENDEDORES == 180
INTERVALO_FORNECEDORES == 20

(* every task rescheduled with the interval of the sales task *)
IntervaloDeVendas(t) == INTERVALO_VENDAS

Intervalo(t) ==
    CASE t = "vendas" -> INTERVALO_VENDAS
      [] t = "compras" -> INTERVALO_COMPRAS
      [] t = "produtos" -> INTERVALO_PRODUTOS
      [] t = "estoque" -> INTERVALO_ESTOQUE
      [] t = "vendedores" -> INTERVALO_VENDEDORES
      [] t = "fornecedores" -> INTERVALO_FORNECEDORES

(* time.sleep(60), in minutes *)
PausaDoCiclo == 1

Avancar(r, d) == Min(r + d, MaxMinuto)

(* the check answering from the file alone, whatever the tables in it *)
BancoExiste(erro) == ~erro /\ tabelas_encontradas # {}

(* _tabelas_iniciais_existem, lines 51-89: False when the database file is  *)
(* missing (no table at all), when the query finds fewer than the five      *)
(* tables, and when the connection or the query raises (lines 86-89)        *)
TabelasIniciaisExistem(erro) == ~erro /\ tabelas_encontradas = TabelasEssenciais

NaoCaptura(erro) == FALSE

(* except Exception around each load and each task body *)
CapturaExcecao(erro) == erro

(* How a full load of a dimension ends: the fetch failed (nothing written), *)
(* the list was empty (table dropped), the list was written, or the write   *)
(* raised.                                                                  *)
FinsDeCargaDeDimensao == {"falha_busca", "vazio", "escrita", "falha_escrita"}

(* How a historical load ends, lines 299-391 and 668-722. *)
FinsDeCargaHistorica == {"concluida", "abortada_busca", "falha_escrita"}

TabelasApos(t, fim, escreveu) ==
    CASE fim = "vazio" -> tabelas_encontradas \ {t}
      [] fim = "escrita" -> tabelas_encontradas \cup {t}
      [] fim \in FinsDeCargaHistorica /\ escreveu -> tabelas_encontradas \cup {t}
      [] OTHER -> tabelas_encontradas

varsForaDoOrquestrador ==
    <<varsDisco, tarefa, data_inicio_loop, data_atual_periodo, data_fim_loop,
      df_existente, cpEntrada, buscas, cpAntes, tabAntes, falhas, alvo,
      varsMerge, varsEstoque, varsPagina, varsRequisicao, varsAnalitico>>

InitOrquestrador ==
    /\ DiscoVazio /\ OrquestradorParado /\ AnaliticoParado /\ RequisicaoParada
    /\ EstoqueParado /\ PaginaParada /\ CargaParada /\ HistVazia /\ MergeParado
    /\ pc = "inicio"
    /\ alvo = "orquestrador"

(* lines 112-114 and 155: the test that opens the initialization phase *)
VerificarTabelas ==
    /\ pc = "inicio"
    /\ \E erro \in BOOLEAN :
          IF TabelasIniciaisExistem(erro)
          THEN pc' = "agendar" /\ indice' = 0
          ELSE pc' = "carga_inicial" /\ indice' = 1
    /\ executadas' = <<>>
    /\ UNCHANGED <<varsForaDoOrquestrador, relogio, desfecho, tabelas_encontradas,
                   agora, proxima_exec, devidas, carga_abortada>>

(* the loop entered after the first load *)
AgendarSemEsperar == "agendar"

ProximaCarga == IF indice = Len(CargasIniciais) THEN "agendar" ELSE "carga_inicial"

(* lines 119-135: the three full loads of the dimensions *)
CargaDeDimensao ==
    /\ pc = "carga_inicial"
    /\ CargasIniciais[indice] \in {"produtos", "vendedores", "fornecedores"}
    /\ \E fim \in FinsDeCargaDeDimensao :
          /\ tabelas_encontradas' = TabelasApos(CargasIniciais[indice], fim, FALSE)
          /\ executadas' = Append(executadas, [tarefa |-> CargasIniciais[indice],
                                               erro |-> fim = "falha_escrita"])
          /\ IF fim = "falha_escrita" /\ ~CapturaExcecao(TRUE)
             THEN pc' = "parado" /\ desfecho' = "excecao" /\ UNCHANGED indice
             ELSE pc' = ProximaCarga /\ indice' = indice + 1 /\ UNCHANGED desfecho
    /\ UNCHANGED <<varsForaDoOrquestrador, relogio, agora, proxima_exec, devidas,
                   carga_abortada>>

(* lines 137-150: a historical load is called *)
ChamarCargaHistorica ==
    /\ pc = "carga_inicial"
    /\ CargasIniciais[indice] \in {"vendas", "compras"}
    /\ carga_abortada' = carga_abortada \ {CargasIniciais[indice]}
    /\ pc' = "carga_historica"
    /\ UNCHANGED <<varsForaDoOrquestrador, relogio, desfecho, tabelas_encontradas,
                   agora, proxima_exec, indice, devidas, executadas>>

(* ... and ends; the enrichment follows the sales load in the same try *)
CargaHistorica ==
    /\ pc = "carga_historica"
    /\ \E fim \in FinsDeCargaHistorica, escreveu \in BOOLEAN :
          LET t == CargasIniciais[indice]
              feitas == Append(executadas, [tarefa |-> t, erro |-> fim = "falha_escrita"])
          IN /\ tabelas_encontradas' = TabelasApos(t, fim, escreveu)
             /\ carga_abortada' = IF fim = "concluida" THEN carga_abortada
                                  ELSE carga_abortada \cup {t}
             /\ executadas' = IF t = "vendas" /\ fim # "falha_escrita"
                              THEN Append(feitas, [tarefa |-> "analitico", erro |-> FALSE])
                              ELSE feitas
             /\ IF fim = "falha_escrita" /\ ~CapturaExcecao(TRUE)
                THEN pc' = "parado" /\ desfecho' = "excecao" /\ UNCHANGED indice
                ELSE pc' = ProximaCarga /\ indice' = indice + 1 /\ UNCHANGED desfecho
    /\ UNCHANGED <<varsForaDoOrquestrador, relogio, agora, proxima_exec, devidas>>

(* lines 163-169 *)
Agendar ==
    /\ pc = "agendar"
    /\ agora' = relogio
    /\ proxima_exec' = [i \in DOMAIN Tarefas |-> relogio]
    /\ pc' = "ciclo"
    /\ UNCHANGED <<varsForaDoOrquestrador, relogio, desfecho, tabelas_encontradas,
                   indice, devidas, executadas, carga_abortada>>

(* line 174: agora = datetime.now() *)
IniciarCiclo ==
    /\ pc = "ciclo"
    /\ agora' = relogio
    /\ devidas' = {Tarefas[i] : i \in {j \in DOMAIN Tarefas : relogio >= proxima_exec[j]}}
    /\ executadas' = <<>>
    /\ indice' = 1
    /\ pc' = "tarefas"
    /\ UNCHANGED <<varsForaDoOrquestrador, relogio, desfecho, tabelas_encontradas,
                   proxima_exec, carga_abortada>>

ProximaTarefa == IF indice = Len(Tarefas) THEN "dormir" ELSE "tarefas"

(* lines 179-253: one of the six if blocks, its task due *)
ExecutarTarefa ==
    /\ pc = "tarefas"
    /\ agora >= proxima_exec[indice]
    /\ \E erro \in BOOLEAN,
          demora \in {d \in {0, 1} : relogio + d - agora <= MaxDemora} :
          /\ executadas' = Append(executadas, [tarefa |-> Tarefas[indice], erro |-> erro])
          /\ relogio' = Avancar(relogio, demora)
          /\ IF erro /\ ~CapturaExcecao(erro)
             THEN /\ pc' = "parado" /\ desfecho' = "excecao"
                  /\ UNCHANGED <<indice, proxima_exec>>
             ELSE /\ proxima_exec' =
                       [proxima_exec EXCEPT ![indice] = agora + Intervalo(Tarefas[indice])]
                  /\ pc' = ProximaTarefa
                  /\ indice' = indice + 1
                  /\ UNCHANGED desfecho
    /\ UNCHANGED <<varsForaDoOrquestrador, agora, devidas, carga_abortada,
                   tabelas_encontradas>>

(* the same if block, its task not due *)
PularTarefa ==
    /\ pc = "tarefas"
    /\ ~(agora >= proxima_exec[indice])
    /\ pc' = ProximaTarefa
    /\ indice' = indice + 1
    /\ UNCHANGED <<varsForaDoOrquestrador, relogio, desfecho, tabelas_encontradas,
                   agora, proxima_exec, devidas, executadas, carga_abortada>>

(* line 258: time.sleep(60) *)
Dormir ==
    /\ pc = "dormir"
    /\ relogio' = Avancar(relogio, PausaDoCiclo)
    /\ pc' = "ciclo"
    /\ UNCHANGED <<varsForaDoOrquestrador, desfecho, varsOrquestrador>>

(* KeyboardInterrupt, lines 260-264, or the process killed *)
InterromperOrquestrador ==
    /\ pc \in {"carga_inicial", "carga_historica", "ciclo", "tarefas", "dormir"}
    /\ pc' = "parado"
    /\ desfecho' = "interrompido"
    /\ UNCHANGED <<varsForaDoOrquestrador, relogio, varsOrquestrador>>

(* the orchestrator started again: its locals are new, the file is as left *)
Reiniciar ==
    /\ pc = "parado"
    /\ pc' = "inicio"
    /\ desfecho' = "nenhum"
    /\ agora' = 0
    /\ proxima_exec' = <<>>
    /\ indice' = 0
    /\ devidas' = {}
    /\ executadas' = <<>>
    /\ UNCHANGED <<varsForaDoOrquestrador, relogio, tabelas_encontradas, carga_abortada>>

PassoDoOrquestrador ==
    \/ VerificarTabelas
    \/ CargaDeDimensao
    \/ ChamarCargaHistorica
    \/ CargaHistorica
    \/ Agendar
    \/ IniciarCiclo
    \/ ExecutarTarefa
    \/ PularTarefa
    \/ Dormir

NextOrquestrador ==
    \/ PassoDoOrquestrador
    \/ InterromperOrquestrador
    \/ Reiniciar

SpecOrquestrador == InitOrquestrador /\ [][NextOrquestrador]_vars

(* the running process takes its next step; nothing forces an interruption  *)
(* or a restart                                                             *)
SpecOrquestradorJusto == SpecOrquestrador /\ WF_vars(PassoDoOrquestrador)

----------------------------------------------------------------------------
(* SpecAnalitico: the enrichment, processar_e_salvar_dados_analiticos       *)
(* (lines 512-621), over the tables the loads and the synchronizations      *)
(* leave.  A behaviour is the initialization phase of the orchestrator      *)
(* (products, sellers, sales, enrichment) followed by one task of the       *)
(* polling loop that writes a raw table and the enrichment after it.        *)
(* A table that does not exist is <<>>: _escrever_para_db never leaves a    *)
(* table without rows (lines 79-90).                                        *)

MaxVendas == 2                   \* rows of the table 'vendas'

SemCodigoRepetido(m) == \A i, j \in DOMAIN m : m[i].codigo = m[j].codigo => i = j

DictsVendedor ==
    [codigo : {Codigo("int", x) : x \in Codigos}, nome : {<<"Ana">>}]

RespostasDeVendedores ==
    {None} \cup {Lista(l) : l \in {m \in SeqAte(DictsVendedor, MaxProdutos) :
                                     SemCodigoRepetido(m)}}

DictsProdutoDoCatalogo ==
    [codigo : {Codigo("int", x) : x \in Codigos},
     nome : {<<"A">>},
     nomeGrupo : {NaN, <<"G">>},
     nomeCategoria : {<<"C">>}]

RespostasDoCatalogo ==
    {None} \cup {Lista(l) : l \in {m \in SeqAte(DictsProdutoDoCatalogo, MaxProdutos) :
                                     SemCodigoRepetido(m)}}

(* the column 'itens' of a stored sale, decoded: a list of item objects *)
(* an item may carry a 'nome' of its own *)
ItensDaVenda ==
    {<<[codigoProduto |-> Codigo("int", "1"), nome |-> NaN]>>,
     <<[codigoProduto |-> Codigo("int", "1"), nome |-> <<"Item">>],
       [codigoProduto |-> Codigo("int", "2"), nome |-> NaN]>>}

(* a row of 'vendas' as the merges leave it: status OK with the value sent, *)
(* status DEVOLUCAO with the value negated                                  *)
VendasArmazenadas(n) ==
    {[numeroNota |-> n, codigoVendedor |-> c, status |-> sv[1],
      valorTotalLiquido |-> sv[2], itens |-> it,
      itens_json |-> "ok", pagamento_json |-> "ok"] :
       c \in {Codigo("int", x) : x \in Codigos},
       sv \in {<< <<"OK">>, <<50>> >>, << <<"DEVOLUCAO">>, <<-70>> >>},
       it \in ItensDaVenda}

(* the tables 'vendas' of at most MaxVendas rows, one row per numeroNota *)
TabelasDeVendas ==
    UNION {{t \in [1..m -> UNION {VendasArmazenadas(n) : n \in 1..m}] :
              \A i \in 1..m : t[i].numeroNota = i} : m \in 0..MaxVendas}

(* the empty list taken for a failed fetch *)
ManterSeVazia(tabela, r) ==
    IF r.ok /\ r.dados # <<>> THEN r.dados ELSE tabela

(* sincronizar_vendedores, lines 506-510: a failed fetch leaves the table,  *)
(* any list replaces it, the empty list drops it                            *)
SincronizarVendedores(tabela, r) ==
    IF r.ok THEN EscreverReplace(tabela, r.dados) ELSE tabela

(* sincronizar_produtos(carga_inicial=False), lines 486-496 *)
SincronizarProdutosAlterados(tabela, r) ==
    IF ~r.ok \/ r.dados = <<>>
    THEN tabela
    ELSE EscreverReplace(tabela, DropDuplicatesLast(tabela \o r.dados, "codigo"))

(* what an incremental sales update naming one key can leave (lines        *)
(* 434-460): the last row replaced by a row of its key, or a row of a new   *)
(* key added                                                                *)
TabelasAposAtualizarVendas(tabela) ==
    {t \in TabelasDeVendas :
       \/ /\ Len(t) = Len(tabela)
          /\ \A i \in 1..(Len(tabela) - 1) : t[i] = tabela[i]
       \/ /\ Len(t) = Len(tabela) + 1
          /\ \A i \in 1..Len(tabela) : t[i] = tabela[i]}

SoVendasExiste(df_vendas, df_vendedores, df_produtos) == df_vendas # <<>>

(* lines 522-531: the three read_sql_table calls; a missing table raises    *)
(* ValueError                                                               *)
TabelasBrutasExistem(df_vendas, df_vendedores, df_produtos) ==
    df_vendas # <<>> /\ df_vendedores # <<>> /\ df_produtos # <<>>

(* what pd.json_normalize gives for an item that is None: every column NaN *)
ItemAusente == [codigoProduto |-> Codigo("NaN", "nan"), nome |-> NaN]

(* lines 540-548: safe_json_loads; the text of a stored sale is kept as the *)
(* list it decodes to (itens) and whether json.loads accepts it             *)
(* (itens_json); a text json.loads rejects becomes None                     *)
SafeJsonLoads(v) == IF v.itens_json = "ok" THEN v.itens ELSE <<ItemAusente>>

(* lines 552-561: df_vendas.explode('itens') with the sale columns kept and *)
(* the items normalized; a sale whose itens is None gives one row           *)
RECURSIVE Explode(_)
Explode(df_vendas) ==
    IF df_vendas = <<>> THEN <<>>
    ELSE LET v == Head(df_vendas)
             itens == SafeJsonLoads(v)
         IN [k \in DOMAIN itens |-> [venda |-> v, item |-> itens[k]]]
              \o Explode(Tail(df_vendas))

(* line 566: the column codigoProduto .astype(str).  A column of integers   *)
(* with a missing value is a float64 column: 1 is 1.0 and str gives "1.0",  *)
(* the missing value gives "nan".  With every value missing the normalized  *)
(* frame has no such column and line 566 leaves the cells NaN.              *)
AsTypeStrDaColuna(coluna, c) ==
    LET ausentes == {k \in DOMAIN coluna : coluna[k].tipo = "NaN"}
    IN IF ausentes = DOMAIN coluna THEN c
       ELSE IF c.tipo = "int" /\ ausentes # {}
               /\ \A k \in DOMAIN coluna \ ausentes : coluna[k].tipo = "int"
       THEN Codigo("str", c.texto \o ".0")
       ELSE AsTypeStr(c)

(* the row of a dimension whose codigo, as a string, is cod: pd.merge       *)
(* how='left' on the astype(str) columns, lines 571-586                     *)
LinhasDaDimensao(df, cod) == {j \in DOMAIN df : AsTypeStr(df[j].codigo) = cod}

(* a joined column, the sentinel filled in where the join gave no value     *)
(* (lines 587, 600-603)                                                     *)
Juntada(df, cod, col, sentinela) ==
    LET achados == LinhasDaDimensao(df, cod)
    IN IF achados = {} \/ ~HasCol(df, col) THEN sentinela
       ELSE LET valor == df[CHOOSE j \in achados : TRUE][col]
            IN IF valor = NaN THEN sentinela ELSE valor

Abs(x) == IF x < 0 THEN -x ELSE x

(* the DEVOLUCAO rows negated whatever their sign *)
SinalSemAbs(status_venda, valor) ==
    LET numero == IF valor = NaN THEN 0 ELSE valor[1]
    IN IF status_venda = <<"DEVOLUCAO">> THEN <<-numero>> ELSE <<numero>>

(* lines 609-617: to_numeric(..).fillna(0), then -abs on the DEVOLUCAO rows *)
SinalFinanceiro(status_venda, valor) ==
    LET numero == IF valor = NaN THEN 0 ELSE valor[1]
    IN IF status_venda = <<"DEVOLUCAO">> THEN <<-Abs(numero)>> ELSE <<numero>>

(* lines 539-617: df_final *)
Enriquecer(df_vendas, df_vendedores, df_produtos) ==
    LET linhas == Explode(df_vendas)
        codigoProduto == [k \in DOMAIN linhas |-> linhas[k].item.codigoProduto]
    IN [n \in DOMAIN linhas |->
          LET v == linhas[n].venda
              cv == AsTypeStr(v.codigoVendedor)
              cp == AsTypeStrDaColuna(codigoProduto, codigoProduto[n])
              status_venda == IF v.status = NaN THEN <<"OK">> ELSE v.status
          IN [numeroNota |-> v.numeroNota,
              codigoVendedor |-> cv,
              codigoProduto |-> cp,
              status_venda |-> status_venda,
              condicaoPagamento_nome |->                 \* line 553
                  IF v.pagamento_json = "ok" THEN <<"A vista">> ELSE NaN,
              valorTotalLiquido |-> SinalFinanceiro(status_venda, v.valorTotalLiquido),
              nomeVendedor |-> Juntada(df_vendedores, cv, "nome", <<"Nao encontrado">>),
              nome |-> IF linhas[n].item.nome # NaN      \* line 594
                       THEN linhas[n].item.nome
                       ELSE Juntada(df_produtos, cp, "nome", NaN),
              nomeGrupo |-> Juntada(df_produtos, cp, "nomeGrupo", <<"Nao encontrado">>),
              nomeCategoria |-> Juntada(df_produtos, cp, "nomeCategoria",
                                        <<"Sem Categoria">>)]]

(* processar_e_salvar_dados_analiticos, up to the write of line 620 *)
ProcessarDadosAnaliticos(df_vendas, df_vendedores, df_produtos) ==
    IF ~TabelasBrutasExistem(df_vendas, df_vendedores, df_produtos)
    THEN [desfecho |-> "abortado", df_final |-> <<>>]
    ELSE [desfecho |-> "escrita",
          df_final |-> Enriquecer(df_vendas, df_vendedores, df_produtos)]

varsForaDoAnalitico ==
    <<compras, estado, data_inicio_loop, data_atual_periodo, data_fim_loop,
      df_existente, relogio, cpEntrada, buscas, cpAntes, falhas, alvo, varsMerge,
      dados_estoque, varsPagina, varsRequisicao, varsOrquestrador>>

InitAnalitico ==
    /\ DiscoVazio /\ OrquestradorParado /\ AnaliticoParado /\ RequisicaoParada
    /\ EstoqueParado /\ PaginaParada /\ CargaParada /\ HistVazia /\ MergeParado
    /\ pc = "carga_produtos"
    /\ alvo = "analitico"

(* orquestrador.py lines 119-123: sincronizar_produtos(carga_inicial=True) *)
CargaDeProdutos ==
    /\ pc = "carga_produtos"
    /\ \E r \in RespostasDoCatalogo :
          LET res == CargaInicialProdutos(produtos, r)
          IN produtos' = IF res.desfecho = "escrita"
                         THEN EscreverReplace(produtos, res.df_final)
                         ELSE produtos
    /\ pc' = "carga_vendedores"
    /\ tarefa' = "sincronizar_produtos"
    /\ UNCHANGED <<varsForaDoAnalitico, vendas, vendedores, vendas_processadas,
                   tabAntes, desfecho>>

(* orquestrador.py lines 125-129 *)
CargaDeVendedores ==
    /\ pc = "carga_vendedores"
    /\ \E r \in RespostasDeVendedores :
          vendedores' = SincronizarVendedores(vendedores, r)
    /\ pc' = "carga_vendas"
    /\ tarefa' = "sincronizar_vendedores"
    /\ UNCHANGED <<varsForaDoAnalitico, vendas, produtos, vendas_processadas,
                   tabAntes, desfecho>>

(* orquestrador.py lines 137-140: realizar_carga_historica_vendas returns,  *)
(* leaving the table it could write                                         *)
CargaDeVendas ==
    /\ pc = "carga_vendas"
    /\ vendas' \in TabelasDeVendas
    /\ pc' = "analitico_inicial"
    /\ tarefa' = "carga_historica_vendas"
    /\ UNCHANGED <<varsForaDoAnalitico, produtos, vendedores, vendas_processadas,
                   tabAntes, desfecho>>

(* one call of processar_e_salvar_dados_analiticos: it returns without      *)
(* writing (lines 527-531), or replaces the fact table (line 620), or the   *)
(* write raises and the table stays                                         *)
Processar(proximo) ==
    LET res == ProcessarDadosAnaliticos(vendas, vendedores, produtos)
    IN /\ \/ /\ res.desfecho = "escrita"
             /\ vendas_processadas' = EscreverReplace(vendas_processadas, res.df_final)
             /\ desfecho' = "escrita"
          \/ /\ res.desfecho = "escrita"
             /\ UNCHANGED vendas_processadas
             /\ desfecho' = "falha_escrita"
          \/ /\ res.desfecho = "abortado"
             /\ UNCHANGED vendas_processadas
             /\ desfecho' = "abortado"
       /\ tabAntes' = vendas_processadas
       /\ tarefa' = "processar_e_salvar_dados_analiticos"
       /\ pc' = proximo
       /\ UNCHANGED <<varsForaDoAnalitico, vendas, produtos, vendedores>>

(* orquestrador.py line 141 *)
ProcessarNaCargaInicial ==
    /\ pc = "analitico_inicial"
    /\ Processar("ciclo")

(* orquestrador.py lines 179-186: atualizar_vendas_recentes and, unless it  *)
(* raised, the enrichment; with no table the update raises KeyError when    *)
(* the upstream sends records (line 431)                                    *)
AtualizarVendasNoCiclo ==
    /\ pc = "ciclo"
    /\ \/ /\ vendas # <<>>
          /\ vendas' \in TabelasAposAtualizarVendas(vendas)
          /\ pc' = "analitico_do_ciclo"
       \/ /\ vendas = <<>>
          /\ UNCHANGED vendas
          /\ pc' \in {"analitico_do_ciclo", "fim"}
    /\ tarefa' = "atualizar_vendas_recentes"
    /\ UNCHANGED <<varsForaDoAnalitico, produtos, vendedores, vendas_processadas,
                   tabAntes, desfecho>>

(* orquestrador.py lines 189-196 *)
SincronizarProdutosNoCiclo ==
    /\ pc = "ciclo"
    /\ \E r \in RespostasDoCatalogo :
          produtos' = SincronizarProdutosAlterados(produtos, r)
    /\ pc' = "analitico_do_ciclo"
    /\ tarefa' = "sincronizar_produtos"
    /\ UNCHANGED <<varsForaDoAnalitico, vendas, vendedores, vendas_processadas,
                   tabAntes, desfecho>>

(* orquestrador.py lines 209-216 *)
SincronizarVendedoresNoCiclo ==
    /\ pc = "ciclo"
    /\ \E r \in RespostasDeVendedores :
          vendedores' = SincronizarVendedores(vendedores, r)
    /\ pc' = "analitico_do_ciclo"
    /\ tarefa' = "sincronizar_vendedores"
    /\ UNCHANGED <<varsForaDoAnalitico, vendas, produtos, vendas_processadas,
                   tabAntes, desfecho>>

(* the enrichment of the pass that follows *)
ProcessarNoCiclo ==
    /\ pc = "analitico_do_ciclo"
    /\ Processar("fim")

NextAnalitico ==
    \/ CargaDeProdutos
    \/ CargaDeVendedores
    \/ CargaDeVendas
    \/ ProcessarNaCargaInicial
    \/ AtualizarVendasNoCiclo
    \/ SincronizarProdutosNoCiclo
    \/ SincronizarVendedoresNoCiclo
    \/ ProcessarNoCiclo

SpecAnalitico == InitAnalitico /\ [][NextAnalitico]_vars

----------------------------------------------------------------------------
(* SpecDecodificacao: processar_e_salvar_dados_analiticos (lines 512-621)   *)
(* on a table 'vendas' whose JSON columns may hold text json.loads rejects. *)
(* The product codes of a table are all integers or all strings.            *)

ItensDoTipo(t) ==
    {<<[codigoProduto |-> Codigo(t, "1"), nome |-> NaN]>>,
     <<[codigoProduto |-> Codigo(t, "1"), nome |-> <<"Item">>],
       [codigoProduto |-> Codigo(t, "2"), nome |-> NaN]>>}

(* a stored sale: itens is what the text of the column decodes to when it   *)
(* is well formed, itens_json and pagamento_json tell whether the text of   *)
(* 'itens' and of 'condicaoPagamento' is JSON                               *)
VendasComJson(n, t) ==
    {[numeroNota |-> n, codigoVendedor |-> Codigo("int", "1"),
      status |-> <<"OK">>, valorTotalLiquido |-> <<50>>, itens |-> it,
      itens_json |-> ij, pagamento_json |-> pj] :
       it \in ItensDoTipo(t), ij \in {"ok", "malformado"},
       pj \in {"ok", "malformado"}}

TabelasComJson ==
    UNION {UNION {{tab \in [1..m -> UNION {VendasComJson(n, t) : n \in 1..m}] :
                     \A i \in 1..m : tab[i].numeroNota = i} : m \in 0..MaxVendas}
             : t \in TiposDeCodigo}

InitDecodificacao ==
    /\ OrquestradorParado /\ RequisicaoParada /\ PaginaParada
    /\ CargaParada /\ HistVazia /\ MergeParado
    /\ dados_estoque = Lista(<<>>)
    /\ compras = <<>>
    /\ estado = [t \in {"carga_historica_vendas", "carga_historica_compras"} |-> NaN]
    /\ vendas \in TabelasComJson
    /\ vendedores = <<[codigo |-> Codigo("int", "1"), nome |-> <<"Ana">>]>>
    /\ produtos = <<[codigo |-> Codigo("int", "1"), nome |-> <<"A">>,
                     nomeGrupo |-> <<"G">>, nomeCategoria |-> <<"C">>]>>
    /\ vendas_processadas = <<>>
    /\ pc = "decodificar"
    /\ alvo = "decodificacao"

(* one call of processar_e_salvar_dados_analiticos *)
ProcessarComJson ==
    /\ pc = "decodificar"
    /\ Processar("fim")

NextDecodificacao == ProcessarComJson

SpecDecodificacao == InitDecodificacao /\ [][NextDecodificacao]_vars

----------------------------------------------------------------------------
(* SpecSinal: processar_e_salvar_dados_analiticos (lines 512-621) on a      *)
(* table 'vendas' whose rows hold every status the merges write and a       *)
(* financial column of either sign, zero or missing.  A return is stored    *)
(* with the value of the cancellation record negated (lines 360-363), so a  *)
(* value sent negative is stored positive.                                  *)

VendasComSinal(n) ==
    {[numeroNota |-> n, codigoVendedor |-> Codigo("int", "1"),
      status |-> st, valorTotalLiquido |-> val,
      itens |-> <<[codigoProduto |-> Codigo("int", "1"), nome |-> <<"Item">>],
                  [codigoProduto |-> Codigo("int", "2"), nome |-> NaN]>>,
      itens_json |-> "ok", pagamento_json |-> "ok"] :
       st \in {NaN, <<"OK">>, <<"DEVOLUCAO">>, <<"Excluida">>},
       val \in {NaN, <<0>>, <<50>>, <<70>>, <<-70>>}}

TabelasComSinal ==
    UNION {{tab \in [1..m -> UNION {VendasComSinal(n) : n \in 1..m}] :
              \A i \in 1..m : tab[i].numeroNota = i} : m \in 0..MaxVendas}

InitSinal ==
    /\ OrquestradorParado /\ RequisicaoParada /\ PaginaParada
    /\ CargaParada /\ HistVazia /\ MergeParado
    /\ dados_estoque = Lista(<<>>)
    /\ compras = <<>>
    /\ estado = [t \in {"carga_historica_vendas", "carga_historica_compras"} |-> NaN]
    /\ vendas \in TabelasComSinal
    /\ vendedores = <<[codigo |-> Codigo("int", "1"), nome |-> <<"Ana">>]>>
    /\ produtos = <<[codigo |-> Codigo("int", "1"), nome |-> <<"A">>,
                     nomeGrupo |-> <<"G">>, nomeCategoria |-> <<"C">>]>>
    /\ vendas_processadas = <<>>
    /\ pc = "sinalizar"
    /\ alvo = "sinal"

(* one call of processar_e_salvar_dados_analiticos *)
ProcessarOSinal ==
    /\ pc = "sinalizar"
    /\ Processar("fim")

NextSinal == ProcessarOSinal

SpecSinal == InitSinal /\ [][NextSinal]_vars

----------------------------------------------------------------------------
(* SpecVendedores: sincronizar_vendedores (lines 498-510) and the           *)
(* enrichment called after it, again and again, on a table 'vendas' of at   *)
(* most one sale and a products table that stay as they are.  The response  *)
(* of the synchronization (dados_vendedores) is kept in dados_alterados,    *)
(* the table it found in df_existente, and in falhas whether the storage    *)
(* refused the write: a to_sql that raises (lines 99-101) or a DROP that    *)
(* fails and is only logged (lines 87-88) leave the table.                  *)

InitVendedores ==
    /\ OrquestradorParado /\ RequisicaoParada /\ PaginaParada
    /\ CargaParada /\ HistVazia /\ MergeParado
    /\ dados_estoque = Lista(<<>>)
    /\ compras = <<>>
    /\ estado = [t \in {"carga_historica_vendas", "carga_historica_compras"} |-> NaN]
    /\ vendas \in {<<>>} \cup {<<v>> : v \in VendasArmazenadas(1)}
    /\ vendedores = <<>>
    /\ produtos = <<[codigo |-> Codigo("int", "1"), nome |-> <<"A">>,
                     nomeGrupo |-> <<"G">>, nomeCategoria |-> <<"C">>]>>
    /\ vendas_processadas = <<>>
    /\ pc = "sincronizar"
    /\ alvo = "vendedores"

(* one call of sincronizar_vendedores *)
SincronizarTodosOsVendedores ==
    /\ pc = "sincronizar"
    /\ \E r \in RespostasDeVendedores :
          /\ \/ /\ vendedores' = SincronizarVendedores(vendedores, r)
                /\ falhas' = {}
             \/ /\ r.ok
                /\ UNCHANGED vendedores
                /\ falhas' = {"escrita"}
          /\ dados_alterados' = r
    /\ df_existente' = vendedores
    /\ tarefa' = "sincronizar_vendedores"
    /\ pc' = "processar"
    /\ UNCHANGED <<compras, estado, data_inicio_loop, data_atual_periodo,
                   data_fim_loop, relogio, cpEntrada, buscas, cpAntes, alvo,
                   dados_cancelados, df_vendas_periodo, rodada, dados_estoque,
                   varsPagina, varsRequisicao, varsOrquestrador, vendas, produtos,
                   vendas_processadas, tabAntes, desfecho>>

(* one call of processar_e_salvar_dados_analiticos *)
ProcessarAposVendedores ==
    /\ pc = "processar"
    /\ Processar("sincronizar")

NextVendedores ==
    \/ SincronizarTodosOsVendedores
    \/ ProcessarAposVendedores

SpecVendedores == InitVendedores /\ [][NextVendedores]_vars


----------------------------------------------------------------------------
(* SpecTabela: _escrever_para_db (lines 67-101) and _ler_do_db (lines       *)
(* 103-126) on one table of the SQLite file, here with the state of the     *)
(* table spelled out: whether it exists, and its rows as stored.  A cell of *)
(* the column 'itens' is a Python value: its type and the JSON text of it.  *)

TabelaAusente == [existe |-> FALSE, linhas |-> <<>>]

CelulasDeItens ==
    {[py |-> "NoneType", texto |-> "null"],
     [py |-> "list", texto |-> "[{}]"],
     [py |-> "str", texto |-> "[{}]"],
     [py |-> "dict", texto |-> "{}"]}

(* the frames of at most MaxVendas rows, the row at position i of key i *)
FramesParaEscrever ==
    UNION {{[i \in 1..m |-> [numeroNota |-> i, itens |-> c[i]]] :
              c \in [1..m -> CelulasDeItens]} : m \in 0..MaxVendas}

(* every call of _escrever_para_db in the module passes if_exists='replace' *)
ModosDosChamadores == {"replace"}

SemConverter(df) == df

(* _converter_objetos_para_json, lines 36-54: json.dumps of the cells that  *)
(* are a dict or a list; the cell becomes a string                          *)
ConverterObjetosParaJson(df) ==
    [i \in DOMAIN df |->
       IF df[i].itens.py \in {"dict", "list"}
       THEN [df[i] EXCEPT !.itens = [py |-> "str", texto |-> df[i].itens.texto]]
       ELSE df[i]]

(* _escrever_para_db: falha is the storage refusing the DROP (lines 87-88,  *)
(* logged) or the to_sql (lines 99-101, logged and raised again)            *)
EscreverParaDb(tabela, df, if_exists, falha) ==
    IF df = <<>>
    THEN IF if_exists = "replace"
         THEN IF falha THEN [tabela |-> tabela, desfecho |-> "falha_drop"]
              ELSE [tabela |-> TabelaAusente, desfecho |-> "removida"]
         ELSE [tabela |-> tabela, desfecho |-> "nada"]
    ELSE IF falha
    THEN [tabela |-> tabela, desfecho |-> "levantou"]
    ELSE IF if_exists = "replace"
    THEN [tabela |-> [existe |-> TRUE, linhas |-> ConverterObjetosParaJson(df)],
          desfecho |-> "escrita"]
    ELSE [tabela |-> [existe |-> TRUE,
                      linhas |-> tabela.linhas \o ConverterObjetosParaJson(df)],
          desfecho |-> "escrita"]

(* _ler_do_db: the rows stored; an empty frame when the table is missing    *)
(* (ValueError, lines 120-123) or the read fails (lines 124-126)            *)
LerDoDb(tabela, falha) ==
    IF tabela.existe /\ ~falha THEN tabela.linhas ELSE <<>>

InitTabela ==
    /\ vendas = TabelaAusente
    /\ compras = <<>>
    /\ estado = [t \in {"carga_historica_vendas", "carga_historica_compras"} |-> NaN]
    /\ cpEntrada = NaN /\ buscas = {} /\ cpAntes = NaN /\ falhas = {}
    /\ desfecho = "nenhum"
    /\ tabAntes = TabelaAusente
    /\ OrquestradorParado /\ AnaliticoParado /\ RequisicaoParada
    /\ EstoqueParado /\ PaginaParada /\ CargaParada /\ MergeParado
    /\ pc = "escrever"
    /\ alvo = "tabela"

EscreverNaTabela ==
    /\ pc = "escrever"
    /\ \E df \in FramesParaEscrever, if_exists \in ModosDosChamadores,
          falha \in BOOLEAN :
          LET res == EscreverParaDb(vendas, df, if_exists, falha)
          IN /\ vendas' = res.tabela
             /\ desfecho' = res.desfecho
             /\ df_vendas_periodo' = df
             /\ tarefa' = if_exists
    /\ tabAntes' = vendas
    /\ falhas' = {}
    /\ pc' = "ler"
    /\ UNCHANGED <<compras, estado, data_inicio_loop, data_atual_periodo,
                   data_fim_loop, df_existente, relogio, cpEntrada, buscas, cpAntes,
                   alvo, dados_alterados, dados_cancelados, rodada, varsEstoque,
                   varsPagina, varsRequisicao, varsOrquestrador, varsAnalitico>>

LerDaTabela ==
    /\ pc = "ler"
    /\ \E falha \in BOOLEAN :
          /\ df_existente' = LerDoDb(vendas, falha)
          /\ falhas' = IF falha THEN {"leitura"} ELSE {}
    /\ pc' = "lido"
    /\ UNCHANGED <<varsDisco, tarefa, data_inicio_loop, data_atual_periodo,
                   data_fim_loop, relogio, cpEntrada, buscas, cpAntes, tabAntes,
                   desfecho, alvo, varsMerge, varsEstoque, varsPagina,
                   varsRequisicao, varsOrquestrador, varsAnalitico>>

(* the caller goes on to its next write *)
SeguirParaEscrita ==
    /\ pc = "lido"
    /\ pc' = "escrever"
    /\ df_existente' = <<>>
    /\ falhas' = {}
    /\ UNCHANGED <<varsDisco, tarefa, data_inicio_loop, data_atual_periodo,
                   data_fim_loop, relogio, cpEntrada, buscas, cpAntes, tabAntes,
                   desfecho, alvo, varsMerge, varsEstoque, varsPagina,
                   varsRequisicao, varsOrquestrador, varsAnalitico>>

NextTabela ==
    \/ EscreverNaTabela
    \/ LerDaTabela
    \/ SeguirParaEscrita

SpecTabela == InitTabela /\ [][NextTabela]_vars

----------------------------------------------------------------------------
(* Claims about one merge call (SpecMerge) *)

LinhasDe(df, col, k) == Selecionar(df, {i \in DOMAIN df : df[i][col] = k})

EventosDe(k, tipos) ==
    {j \in DOMAIN dados_cancelados.dados :
        /\ dados_cancelados.dados[j].numeroNota = k
        /\ dados_cancelados.dados[j].tipoCancelamento \in tipos}

BasesDe(k) == {i \in DOMAIN dados_alterados.dados : dados_alterados.dados[i].numeroNota = k}

UltimoEvento(k, tipos) ==
    dados_cancelados.dados[CHOOSE j \in EventosDe(k, tipos) :
                          \A m \in EventosDe(k, tipos) : m <= j]

(* C4 as stated: a base record and a return event (D) with the same        *)
(* numeroNota give exactly one row, status DEVOLUCAO, whose numeric column  *)
(* is the negation of the base record's value.                              *)
C4_NegacaoDoValorBase ==
    pc = "fim" =>
      \A k \in Keys : \A i \in BasesDe(k) :
         (EventosDe(k, {<<"D">>}) # {} /\ dados_alterados.dados[i].valorTotalLiquido # NaN)
         => LET linhas == LinhasDe(df_vendas_periodo, "numeroNota", k)
            IN /\ Len(linhas) = 1
               /\ linhas[1].status = <<"DEVOLUCAO">>
               /\ linhas[1].valorTotalLiquido =
                     <<0 - dados_alterados.dados[i].valorTotalLiquido[1]>>

(* C4 amended: a base record and a return event (D) with the same           *)
(* numeroNota, with no deletion event (E) for it, give exactly one row: the *)
(* row of the last such return event, status DEVOLUCAO, its numeric column  *)
(* the negation of the value the event carries (0 when the event has none   *)
(* while another cancellation record has the column, null when none has).   *)
C4_NegacaoDoValorDoEvento ==
    pc = "fim" =>
      \A k \in Keys :
         (BasesDe(k) # {} /\ EventosDe(k, {<<"D">>}) # {}
            /\ EventosDe(k, {<<"E">>}) = {})
         => LET linhas == LinhasDe(df_vendas_periodo, "numeroNota", k)
                ev == UltimoEvento(k, {<<"D">>})
                temColuna == \E j \in DOMAIN dados_cancelados.dados :
                                dados_cancelados.dados[j].valorTotalLiquido # NaN
            IN /\ Len(linhas) = 1
               /\ linhas[1].status = <<"DEVOLUCAO">>
               /\ linhas[1].tipoCancelamento = <<"D">>
               /\ linhas[1].valorTotalLiquido =
                     IF ev.valorTotalLiquido # NaN
                     THEN <<0 - ev.valorTotalLiquido[1]>>
                     ELSE IF temColuna THEN <<0>> ELSE NaN

C4_Witness ==
    /\ pc = "fim"
    /\ \E k \in Keys :
          /\ \E i \in BasesDe(k) : dados_alterados.dados[i].valorTotalLiquido = <<50>>
          /\ EventosDe(k, {<<"D">>}) # {}
          /\ EventosDe(k, {<<"E">>}) = {}
          /\ UltimoEvento(k, {<<"D">>}).valorTotalLiquido = <<70>>
          /\ \E n \in DOMAIN df_vendas_periodo :
                /\ df_vendas_periodo[n].numeroNota = k
                /\ df_vendas_periodo[n].valorTotalLiquido = <<-70>>

(* C5: in one merge call, a key that has a cancellation event (D or E)      *)
(* keeps exactly one row and it is an event's row, never the base row; with *)
(* both a return and a deletion the row is the deletion (status Excluida).  *)
C5_CancelamentoPrevalece ==
    pc = "fim" =>
      \A k \in Keys :
         EventosDe(k, {<<"D">>, <<"E">>}) # {}
         => LET linhas == LinhasDe(df_vendas_periodo, "numeroNota", k)
            IN /\ Len(linhas) = 1
               /\ linhas[1].tipoCancelamento \in {<<"D">>, <<"E">>}
               /\ linhas[1].status \in {<<"DEVOLUCAO">>, <<"Excluida">>}
               /\ EventosDe(k, {<<"E">>}) # {}
                    => /\ linhas[1].status = <<"Excluida">>
                       /\ linhas[1] =
                            [UltimoEvento(k, {<<"E">>}) EXCEPT !.status = <<"Excluida">>]

C5_Witness ==
    /\ pc = "fim"
    /\ \E k \in Keys :
          /\ BasesDe(k) # {}
          /\ EventosDe(k, {<<"D">>}) # {}
          /\ EventosDe(k, {<<"E">>}) # {}
          /\ \E n \in DOMAIN df_vendas_periodo :
                /\ df_vendas_periodo[n].numeroNota = k
                /\ df_vendas_periodo[n].status = <<"Excluida">>

Negativo(v) == v # NaN /\ v[1] < 0

----------------------------------------------------------------------------
(* Claims about the historical loads (Spec) *)

Sobrepoe(b, ini, fim) == b[1] <= fim /\ b[2] >= ini

C2_FalhaPrimariaAborta ==
    "primaria" \in falhas =>
      /\ pc = "ocioso"
      /\ desfecho = "falha_busca"
      /\ TabelaDe(tarefa) = tabAntes
      /\ estado[tarefa] = cpAntes
      /\ \A b \in buscas : b[1] <= data_atual_periodo

C2_Witness ==
    /\ "primaria" \in falhas
    /\ pc = "ocioso"
    /\ cpAntes # NaN
    /\ tabAntes # <<>>
    /\ Cardinality(buscas) = 2

(* C3 as stated: a fetch of the period that fails, the cancellation fetch   *)
(* included, leaves the checkpoint where it was when the period started.    *)
C3_QualquerFalhaMantemCheckpoint ==
    falhas \cap {"primaria", "cancelamentos"} # {} => estado[tarefa] = cpAntes

(* C17: when the write of a period raises, the run is over: the checkpoint  *)
(* is what it was when the period started, and no period after the failed   *)
(* one is fetched.                                                          *)
C17_FalhaDeEscritaNaoAvanca ==
    "escrita" \in falhas =>
      /\ pc = "ocioso"
      /\ estado[tarefa] = cpAntes
      /\ \A b \in buscas : b[1] <= data_atual_periodo

(* the write of the second period of a run fails, after the first period    *)
(* wrote rows and saved its checkpoint                                      *)
C17_Witness ==
    /\ "escrita" \in falhas
    /\ desfecho = "falha_escrita"
    /\ cpAntes = <<DataInicioHistorico>>
    /\ data_atual_periodo = DataInicioHistorico + SALES_FILE_DAYS_INTERVAL
    /\ tabAntes # <<>>

EhData(cp) == cp # NaN /\ cp # Corrompido

C16_WitnessCorrompido ==
    /\ pc = "checkpoint"
    /\ estado[tarefa] = Corrompido
    /\ data_atual_periodo = DataInicioHistorico
    /\ desfecho = "interrompida"

----------------------------------------------------------------------------
(* Claims about the tables (SpecSync) *)

ChavesUnicas(df, col) ==
    \A i, j \in DOMAIN df : df[i][col] = df[j][col] => i = j

TemChaveRepetida(df, col) ==
    \E i, j \in DOMAIN df : i # j /\ df[i][col] = df[j][col]

(* C6: no two rows of 'vendas' share a numeroNota and no two rows of        *)
(* 'compras' share a numeroNotaFiscal, after every period of a historical   *)
(* load and every incremental update, whatever the responses repeat.        *)
C6_ChavesNaturaisUnicas ==
    /\ ChavesUnicas(vendas, "numeroNota")
    /\ ChavesUnicas(compras, "numeroNotaFiscal")

C6_Witness ==
    /\ pc = "fim_tarefa" /\ desfecho = "escrita"
    /\ tarefa = "atualizar_compras_recentes"
    /\ TemChaveRepetida(dados_alterados.dados, "numeroNotaFiscal")
    /\ \E i \in DOMAIN tabAntes :
          tabAntes[i].numeroNotaFiscal = dados_alterados.dados[1].numeroNotaFiscal
    /\ Len(compras) = 2

(* C7: an incremental update run twice in a row on the same responses       *)
(* leaves after the second run the table the first run left.                *)
C7_AtualizacaoIdempotente ==
    (/\ pc = "fim_tarefa" /\ rodada = 2 /\ desfecho # "falha_escrita"
     /\ tarefa \in {"atualizar_vendas_recentes", "atualizar_compras_recentes"})
      => IF alvo = "vendas" THEN vendas = tabAntes ELSE compras = tabAntes

C7_Witness ==
    /\ pc = "fim_tarefa" /\ rodada = 2 /\ desfecho = "escrita"
    /\ tarefa = "atualizar_vendas_recentes"
    /\ dados_alterados.dados # <<>>
    /\ Len(dados_cancelados.dados) = 2
    /\ Len(vendas) = 2
    /\ vendas = tabAntes

C19_WitnessCompras ==
    /\ pc = "fim_tarefa" /\ rodada = 2 /\ desfecho = "escrita"
    /\ tarefa = "carga_historica_compras"
    /\ TemChaveRepetida(dados_alterados.dados, "numeroNotaFiscal")
    /\ Len(compras) = 2

(* C8 as stated: after an incremental sales update whose changed set or     *)
(* cancellation set is not empty, every key of either set has exactly one   *)
(* row in 'vendas', a row built from the responses of this run, and the     *)
(* cancellation's row when the key is in both sets.                         *)
C8_ChavesDaRodadaSubstituidas ==
    LET alterados == DadosOuVazio(dados_alterados)
        cancelados == DoTipo(DadosOuVazio(dados_cancelados), "D")
                        \o DoTipo(DadosOuVazio(dados_cancelados), "E")
        novas == MergeRecentesVendas(alterados, DadosOuVazio(dados_cancelados))
    IN (/\ pc = "fim_tarefa" /\ rodada = 1
        /\ tarefa = "atualizar_vendas_recentes"
        /\ desfecho # "falha_escrita")
       => \A k \in ChavesDe(alterados, "numeroNota")
                     \cup ChavesDe(cancelados, "numeroNota") :
            LET linhas == LinhasDe(vendas, "numeroNota", k)
            IN /\ Len(linhas) = 1
               /\ \E n \in DOMAIN novas : novas[n] = linhas[1]
               /\ k \in ChavesDe(cancelados, "numeroNota")
                    => linhas[1].tipoCancelamento \in {<<"D">>, <<"E">>}

(* the same statement for the runs that found the table in place *)
C8_ComTabelaExistente ==
    tabAntes # <<>> => C8_ChavesDaRodadaSubstituidas

(* a sales task of SpecSync ran once and returned normally *)
VendasReconciliadas ==
    /\ pc = "fim_tarefa" /\ rodada = 1
    /\ tarefa \in {"carga_historica_vendas", "atualizar_vendas_recentes"}
    /\ desfecho \in {"escrita", "sem_dados"}
    /\ tabAntes # <<>>

(* the keys the run has a cancellation record of, none of them D or E, and  *)
(* no changed sale                                                          *)
SoEventosDeOutroTipo(k) ==
    /\ EventosDe(k, Tipos) # {}
    /\ EventosDe(k, {<<"D">>, <<"E">>}) = {}
    /\ BasesDe(k) = {}

(* a key with a deletion event has one row, the last such event with status *)
(* Excluida and the value it carries                                        *)
ExclusaoMantemValores(k) ==
    EventosDe(k, {<<"E">>}) # {} =>
       LET linhas == LinhasDe(vendas, "numeroNota", k)
       IN /\ Len(linhas) = 1
          /\ linhas[1].status = <<"Excluida">>
          /\ linhas[1].tipoCancelamento = <<"E">>
          /\ linhas[1].valorTotalLiquido = UltimoEvento(k, {<<"E">>}).valorTotalLiquido

(* C28 as stated: after a backfill window or an incremental update of the   *)
(* sales table, a key with a deletion event (E) has one row, status         *)
(* Excluida, with the value the event carries, sign unchanged; a key whose   *)
(* only records in the run are cancellation events of a type that is        *)
(* neither D nor E has the rows it had before the run.                      *)
C28_ExclusaoEOutrosTipos ==
    VendasReconciliadas =>
      \A k \in Keys :
         /\ ExclusaoMantemValores(k)
         /\ SoEventosDeOutroTipo(k) =>
               LinhasDe(vendas, "numeroNota", k) = LinhasDe(tabAntes, "numeroNota", k)

(* what holds: the same for the deletion events; an event of another type   *)
(* adds no row, and in a backfill window leaves the rows of its key         *)
C28_OutrosTiposNaoGeramLinha ==
    VendasReconciliadas =>
      \A k \in Keys :
         /\ ExclusaoMantemValores(k)
         /\ SoEventosDeOutroTipo(k) =>
               /\ \A n \in DOMAIN vendas : vendas[n].numeroNota = k =>
                     \E m \in DOMAIN tabAntes : tabAntes[m] = vendas[n]
               /\ tarefa = "carga_historica_vendas" =>
                     LinhasDe(vendas, "numeroNota", k)
                       = LinhasDe(tabAntes, "numeroNota", k)

StatusDeVenda == {<<"OK">>, <<"DEVOLUCAO">>, <<"Excluida">>}

VendasEscritas ==
    /\ pc = "fim_tarefa"
    /\ tarefa \in {"carga_historica_vendas", "atualizar_vendas_recentes"}
    /\ desfecho = "escrita"

(* C29 as stated: every row of the sales table a backfill window or an      *)
(* incremental update wrote has status OK, DEVOLUCAO or Excluida; a changed  *)
(* sale that came without a status has OK, also when no record of the       *)
(* response has a status.                                                   *)
C29_StatusSempreDefinido ==
    VendasEscritas =>
      \A n \in DOMAIN vendas : vendas[n].status \in StatusDeVenda

(* what holds: the rows written from a response in which some changed sale  *)
(* has a status                                                             *)
C29_StatusComColunaNaResposta ==
    (VendasEscritas /\ HasCol(dados_alterados.dados, "status")) =>
      \A n \in DOMAIN vendas :
         (\A m \in DOMAIN tabAntes : tabAntes[m] # vendas[n])
            => vendas[n].status \in StatusDeVenda

----------------------------------------------------------------------------
(* Claims about the products table (SpecEstoque) *)

NomeadoNaAtualizacao(c) ==
    \E j \in DOMAIN dados_estoque.dados :
        dados_estoque.dados[j].codigoProduto.texto = c.texto

AposSincronizarEstoque ==
    /\ pc = "fim_tarefa"
    /\ tarefa = "sincronizar_estoque"
    /\ desfecho # "falha_escrita"

(* C9 as stated: after a stock synchronization the products table has the   *)
(* rows it had, each with every field as before, except quantidadeEstoque   *)
(* of the products the update names.                                        *)
C9_SomenteEstoqueDosNomeados ==
    AposSincronizarEstoque =>
      /\ Len(produtos) = Len(tabAntes)
      /\ \A i \in DOMAIN tabAntes :
            /\ produtos[i].codigo = tabAntes[i].codigo
            /\ produtos[i].nome = tabAntes[i].nome
            /\ ~NomeadoNaAtualizacao(tabAntes[i].codigo)
                 => produtos[i].quantidadeEstoque = tabAntes[i].quantidadeEstoque

(* the same statement with the code compared by its text only *)
C9_SalvoOTipoDoCodigo ==
    AposSincronizarEstoque =>
      /\ Len(produtos) = Len(tabAntes)
      /\ \A i \in DOMAIN tabAntes :
            /\ produtos[i].codigo.texto = tabAntes[i].codigo.texto
            /\ produtos[i].nome = tabAntes[i].nome
            /\ ~NomeadoNaAtualizacao(tabAntes[i].codigo)
                 => produtos[i].quantidadeEstoque = tabAntes[i].quantidadeEstoque

(* a stock synchronization returned, by a write, a failed write, an early   *)
(* return or an exception                                                   *)
EstoqueRodou ==
    /\ pc = "fim_tarefa"
    /\ tarefa = "sincronizar_estoque"

(* C39 as stated: a stock synchronization adds no product row and removes   *)
(* none: the set of product keys after the run is the set before it, an     *)
(* update row of a product that is not in the table leaves no trace, and    *)
(* with the products table missing or empty nothing is written.             *)
C39_ChavesDeProdutoIguais ==
    EstoqueRodou =>
      /\ Len(produtos) = Len(tabAntes)
      /\ ChavesDe(produtos, "codigo") = ChavesDe(tabAntes, "codigo")
      /\ tabAntes = <<>> => (produtos = <<>> /\ desfecho \in {"sem_dados", "sem_produtos"})

(* the same statement with the keys compared by their text: the run keeps   *)
(* the rows in their places, each with the text of its code                 *)
C39_SalvoOTipoDaChave ==
    EstoqueRodou =>
      /\ Len(produtos) = Len(tabAntes)
      /\ \A i \in DOMAIN tabAntes : produtos[i].codigo.texto = tabAntes[i].codigo.texto
      /\ tabAntes = <<>> => (produtos = <<>> /\ desfecho \in {"sem_dados", "sem_produtos"})

----------------------------------------------------------------------------
(* Claims about the paginated fetch (SpecPagina) *)

RECURSIVE PaginasAte(_)
PaginasAte(k) ==
    IF k = 0 THEN <<>>
    ELSE PaginasAte(k - 1)
           \o PaginaDe(requisicoes[k].primeiroRegistro, requisicoes[k].recebidos)

TamanhosRecebidos == [k \in DOMAIN requisicoes |-> requisicoes[k].recebidos]

(* C10: the requests carry the offsets 0, 999, 1998, ... and the page size  *)
(* 999; a request follows only full pages, and the call returns right after *)
(* the first page with fewer than 999 records, with the pages received      *)
(* concatenated in order; pages of 999, 999 and 500 records give 2498       *)
(* records in 3 requests.                                                   *)
C10_Paginacao ==
    /\ \A k \in DOMAIN requisicoes :
          /\ requisicoes[k].primeiroRegistro = 999 * (k - 1)
          /\ requisicoes[k].quantidadeRegistros = 999
          /\ k < Len(requisicoes) =>
               requisicoes[k].ok /\ requisicoes[k].recebidos = 999
    /\ (pc = "laco_paginas" /\ requisicoes # <<>>) =>
          LET u == requisicoes[Len(requisicoes)]
          IN u.ok /\ u.recebidos = 999
    /\ (pc = "retornou" /\ retorno.ok) =>
          LET u == requisicoes[Len(requisicoes)]
          IN /\ u.ok /\ u.recebidos < 999
             /\ retorno.dados = PaginasAte(Len(requisicoes))
    /\ (pc = "retornou" /\ TamanhosRecebidos = <<999, 999, 500>>
          /\ \A k \in DOMAIN requisicoes : requisicoes[k].ok) =>
          /\ retorno.ok
          /\ Len(retorno.dados) = 2498
          /\ Len(requisicoes) = 3

C10_Witness ==
    /\ pc = "retornou"
    /\ retorno.ok
    /\ TamanhosRecebidos = <<999, 999, 500>>
    /\ Len(retorno.dados) = 2498
    /\ retorno.dados[2498] = 2498

----------------------------------------------------------------------------
(* Claims about realizar_requisicao_segura inside the paginated fetch       *)
(* (SpecBusca)                                                              *)

Gets == {i \in DOMAIN eventos : eventos[i].tipo = "GET"}

UltimoGetFalhou ==
    eventos # <<>> /\ ~eventos[Len(eventos)].ok

(* C11: a call of realizar_requisicao_segura returns None only after ten    *)
(* failed attempts and a page otherwise; _buscar_dados_paginados returns    *)
(* None, and no list, when a page failed, and the empty list when the first *)
(* page is empty.                                                           *)
C11_FalhaDistintaDeVazio ==
    /\ pc = "pagina" =>
          /\ pagina_de_dados.ok <=> ~UltimoGetFalhou
          /\ ~pagina_de_dados.ok =>
                /\ Cardinality(Gets) = 10
                /\ \A i \in Gets : ~eventos[i].ok
    /\ pc = "retornou" =>
          /\ retorno.ok <=> ~UltimoGetFalhou
          /\ UltimoGetFalhou => retorno = [ok |-> FALSE, dados |-> <<>>]
          /\ (Len(requisicoes) = 1 /\ ~UltimoGetFalhou /\ requisicoes[1].recebidos = 0)
                => retorno = [ok |-> TRUE, dados |-> <<>>]

C11_Witness ==
    /\ pc = "retornou"
    /\ ~retorno.ok
    /\ Len(requisicoes) = 2
    /\ todos_os_dados # <<>>

C11_WitnessVazio ==
    /\ pc = "retornou"
    /\ retorno = [ok |-> TRUE, dados |-> <<>>]
    /\ Len(requisicoes) = 1

C12_NoMaximoDezTentativas ==
    /\ Cardinality(Gets) <= 10
    /\ \A i \in Gets : eventos[i].ok => (i = Len(eventos) /\ pc # "tentativa" /\ pc # "falhou")
    /\ pc = "pagina" =>
          /\ pagina_de_dados.ok => eventos[Len(eventos)].ok
          /\ ~pagina_de_dados.ok <=>
                (Cardinality(Gets) = 10 /\ \A i \in Gets : ~eventos[i].ok)

(* C12: a call makes at most ten attempts, returns the body at the first    *)
(* attempt that succeeds and makes no attempt after it, returns None if and *)
(* only if ten attempts failed, and always returns.                         *)
C12_TentativasLimitadas ==
    /\ []C12_NoMaximoDezTentativas
    /\ (pc = "tentativa") ~> (pc = "pagina")

C12_Witness ==
    /\ pc = "pagina"
    /\ pagina_de_dados.ok
    /\ Cardinality(Gets) = 10
    /\ pagina_de_dados.dados # <<>>

(* C30: the events of a call are attempts and delays in turn, starting with *)
(* an attempt: after each failed attempt but the fifth and the tenth one     *)
(* delay of intervalo_tentativas_s seconds, after the fifth one delay of     *)
(* espera_entre_ciclos_min minutes and no other, after the tenth none; a     *)
(* delay follows a failed attempt only and an attempt follows it; nothing    *)
(* follows an attempt that succeeded.                                        *)
C30_EsperasEntreTentativas ==
    /\ Len(eventos) <= 2 * 10 - 1
    /\ \A i \in DOMAIN eventos :
          /\ i % 2 = 1 => eventos[i].tipo = "GET"
          /\ i % 2 = 0 =>
                /\ eventos[i].tipo = "sleep"
                /\ ~eventos[i - 1].ok
                /\ eventos[i].segundos = IF i = 2 * 5 THEN 5 * 60 ELSE 10
          /\ eventos[i].ok => i = Len(eventos)
    /\ (eventos # <<>> /\ eventos[Len(eventos)].tipo = "sleep") => pc = "tentativa"
    /\ (eventos # <<>> /\ eventos[Len(eventos)].ok) => pc \notin {"tentativa", "falhou"}

(* the ten attempts of a call failed: nine delays, the fifth of five minutes *)
C30_Witness ==
    /\ pc = "pagina"
    /\ ~pagina_de_dados.ok
    /\ Len(eventos) = 19
    /\ eventos[10] = Sleep(300)
    /\ eventos[18] = Sleep(10)

(* the first attempt of the second cycle succeeded *)
C30_WitnessSegundoCiclo ==
    /\ pc = "pagina"
    /\ Len(eventos) = 11
    /\ eventos[11].ok

(* C13 as stated: every GET carries the Authorization header built from the *)
(* configured token, and every header of the caller under another name.     *)
C13_AutorizacaoSempreInjetada ==
    \A i \in Gets :
       /\ CabecalhoInjetado \in eventos[i].headers
       /\ \A h \in headers : h[1] # "Authorization" => h \in eventos[i].headers

(* the same statement for the callers that pass no Authorization entry *)
C13_SemAutorizacaoDoChamador ==
    (\A h \in headers : h[1] # "Authorization") => C13_AutorizacaoSempreInjetada

----------------------------------------------------------------------------
(* Claims about the orchestrator (SpecOrquestrador) *)

Feitas == {executadas[i].tarefa : i \in DOMAIN executadas}

(* C14: in a cycle of the loop every task that was due when the cycle       *)
(* started has run by the end of the cycle, whichever of them raised, and   *)
(* an exception of a task body never ends the loop.                         *)
C14_TarefasIsoladas ==
    /\ pc = "tarefas" =>
          \A i \in DOMAIN Tarefas :
             (i < indice /\ Tarefas[i] \in devidas) => Tarefas[i] \in Feitas
    /\ pc = "dormir" => Feitas = devidas
    /\ pc = "parado" => desfecho = "interrompido"

C14_Witness ==
    /\ pc = "dormir"
    /\ Len(executadas) = Len(Tarefas)
    /\ executadas[1].erro
    /\ executadas[3].erro
    /\ ~executadas[6].erro

(* the tasks that ran in the cycle, in the order they ran *)
OrdemDasFeitas ==
    \A i, j \in DOMAIN executadas :
       i < j => \E a, b \in DOMAIN Tarefas :
                   /\ a < b
                   /\ Tarefas[a] = executadas[i].tarefa
                   /\ Tarefas[b] = executadas[j].tarefa

(* C31: in the polling loop a task body runs only in a step whose task was  *)
(* due at the time sampled when the cycle started (agora >= its next-due    *)
(* time), one task per step, in the order of the six blocks, each at most   *)
(* once per cycle; when the body has returned or raised, its next-due time  *)
(* is that sampled time plus the interval of the task and no other next-due *)
(* time changes; the sampled time changes only when a cycle starts; and a   *)
(* cycle starts again only after the sleep of one minute that ends the      *)
(* cycle before.                                                            *)
C31_DisciplinaDeAgendamento ==
    [][/\ (pc = "tarefas" /\ executadas' # executadas) =>
            /\ agora >= proxima_exec[indice]
            /\ Tarefas[indice] \in devidas
            /\ Len(executadas') = Len(executadas) + 1
            /\ executadas'[Len(executadas')].tarefa = Tarefas[indice]
            /\ OrdemDasFeitas'
            /\ pc' # "parado" =>
                  proxima_exec' = [proxima_exec EXCEPT
                     ![indice] = agora + (CASE Tarefas[indice] = "vendas" -> INTERVALO_VENDAS
                                            [] Tarefas[indice] = "produtos" -> INTERVALO_PRODUTOS
                                            [] Tarefas[indice] = "estoque" -> INTERVALO_ESTOQUE
                                            [] Tarefas[indice] = "vendedores" -> INTERVALO_VENDEDORES
                                            [] Tarefas[indice] = "compras" -> INTERVALO_COMPRAS
                                            [] Tarefas[indice] = "fornecedores" -> INTERVALO_FORNECEDORES)]
       /\ (pc = "tarefas" /\ pc' \in {"tarefas", "dormir"} /\ executadas' = executadas) =>
            /\ ~(agora >= proxima_exec[indice])
            /\ proxima_exec' = proxima_exec
       /\ (pc \in {"tarefas", "dormir"}) => agora' = agora
       /\ (pc' = "ciclo" /\ pc # "ciclo") =>
            \/ pc = "agendar"
            \/ /\ pc = "dormir"
               /\ relogio' = Min(relogio + 1, MaxMinuto)
               /\ proxima_exec' = proxima_exec
       /\ (pc = "ciclo" /\ pc' = "tarefas") =>
            /\ agora' = relogio
            /\ devidas' = {Tarefas[i] : i \in {j \in DOMAIN Tarefas :
                                                  relogio >= proxima_exec[j]}}]_vars

(* a cycle after the first in which sales and stock were due and ran, the   *)
(* other tasks were skipped, and the next run of both is ten minutes after  *)
(* the time sampled                                                         *)
C31_Witness ==
    /\ pc = "dormir"
    /\ agora = INTERVALO_VENDAS
    /\ Feitas = {"vendas", "estoque"}
    /\ proxima_exec[1] = agora + INTERVALO_VENDAS
    /\ proxima_exec[3] = agora + INTERVALO_ESTOQUE
    /\ proxima_exec[2] = INTERVALO_PRODUTOS

(* the scheduler of the loop is at work: next-due times set, a cycle open *)
LacoEmCurso == pc \in {"ciclo", "tarefas", "dormir"}

(* C35: while a historical load called by the initialization phase has not  *)
(* returned, the only step of the process is the return of that load (or    *)
(* its end by an exception or an interruption): no task of the loop is      *)
(* appended to the tasks done and the sampled time, the next-due times and  *)
(* the set of due tasks stay as they are.  The next-due times are set, and  *)
(* the loop entered, only from the test that found every essential table or *)
(* after the last of the five initial loads has come back; a task of the    *)
(* loop runs only inside the loop.                                          *)
C35_CargaHistoricaAntesDasTarefas ==
    [][/\ pc = "carga_historica" =>
            /\ pc' \in {"carga_inicial", "agendar", "parado"}
            /\ agora' = agora /\ proxima_exec' = proxima_exec /\ devidas' = devidas
            /\ relogio' = relogio
            /\ \A k \in DOMAIN executadas' \ DOMAIN executadas :
                  executadas'[k].tarefa \in {CargasIniciais[indice], "analitico"}
       /\ (pc' = "agendar" /\ pc # "agendar") =>
            \/ pc = "inicio" /\ tabelas_encontradas = TabelasEssenciais
            \/ /\ pc \in {"carga_inicial", "carga_historica"}
               /\ indice = Len(CargasIniciais)
               /\ Len(executadas') > Len(executadas)
       /\ (LacoEmCurso' /\ ~LacoEmCurso) => pc = "agendar"
       /\ (proxima_exec' # proxima_exec) => pc \in {"agendar", "tarefas", "parado"}]_vars

(* the sales load and the enrichment have returned and the purchases load   *)
(* is running: nothing is scheduled yet                                     *)
C35_Witness ==
    /\ pc = "carga_historica"
    /\ CargasIniciais[indice] = "compras"
    /\ Len(executadas) = 5
    /\ executadas[5].tarefa = "analitico"

(* the loads of the initialization phase are called in the order of lines  *)
(* 119-150, the enrichment right after the sales load                       *)
CargasNaOrdem ==
    LET nomes == [k \in DOMAIN executadas |-> executadas[k].tarefa]
        ordem == <<"produtos", "vendedores", "fornecedores", "vendas", "analitico",
                   "compras">>
    IN \A i, j \in DOMAIN nomes :
          i < j => \E a, b \in DOMAIN ordem :
                      a < b /\ ordem[a] = nomes[i] /\ ordem[b] = nomes[j]

PassoDeInicializacao ==
    /\ (pc = "inicio" /\ pc' # "inicio") =>
         /\ pc' \in {"carga_inicial", "agendar"}
         /\ tabelas_encontradas # TabelasEssenciais => pc' = "carga_inicial"
         /\ pc' = "carga_inicial" => indice' = 1 /\ executadas' = <<>>
    /\ (pc \in {"carga_inicial", "carga_historica"} /\ pc' # "parado") =>
         /\ CargasNaOrdem'
         /\ pc' = "agendar" =>
               /\ {executadas'[k].tarefa : k \in DOMAIN executadas'} \ {"analitico"}
                    = {CargasIniciais[k] : k \in DOMAIN CargasIniciais}
               /\ \A k \in DOMAIN executadas' :
                     (executadas'[k].tarefa = "analitico") => executadas'[k - 1].tarefa = "vendas"
    /\ (pc' = "carga_inicial" /\ pc # "carga_inicial") => pc \in {"inicio", "carga_historica"}
    /\ (pc' = "carga_historica" /\ pc # "carga_historica") => pc = "carga_inicial"
    /\ (\E t \in carga_abortada : t \notin carga_abortada') =>
         pc = "carga_inicial" /\ pc' = "carga_historica"
    /\ LacoEmCurso => pc' \in {"ciclo", "tarefas", "dormir", "parado"}

(* C36 as stated: the initial load runs exactly when one of the five        *)
(* essential tables is missing, its loads in the order products, sellers,   *)
(* suppliers, sales (then enrichment), purchases; the loop never calls a    *)
(* historical load.                                                         *)
C36_CargaInicialSeESoSeFaltaTabela ==
    [][/\ PassoDeInicializacao
       /\ (pc = "inicio" /\ pc' = "carga_inicial") =>
            tabelas_encontradas # TabelasEssenciais]_vars

(* C36: at a start with one of the five essential tables missing the        *)
(* initial load runs, its loads called in the order products, sellers,      *)
(* suppliers, sales, purchases, the enrichment only right after a sales     *)
(* load; with the five tables present it runs only when the check itself    *)
(* failed.  A historical load is called only inside the initial load, never *)
(* by the loop, so a load left aborted stays so until a later start runs    *)
(* the initial load again.                                                  *)
C36_CargaInicialQuandoFaltaTabela ==
    [][PassoDeInicializacao]_vars

(* the initial load has run whole after a start that found a table missing  *)
(* and the loop is about to be scheduled                                    *)
C36_Witness ==
    /\ pc = "agendar"
    /\ Len(executadas) = 6
    /\ executadas[5].tarefa = "analitico"
    /\ executadas[6].tarefa = "compras"
    /\ tabelas_encontradas = TabelasEssenciais

----------------------------------------------------------------------------
(* Claims about the rows an incremental run and a merge leave (SpecSync) *)

(* an incremental update has returned: the table it read is tabAntes, its  *)
(* responses are dados_alterados and dados_cancelados                       *)
IncrementalRodou ==
    /\ alvo \in {"vendas", "compras"}
    /\ pc = "fim_tarefa"
    /\ tarefa \in {"atualizar_vendas_recentes", "atualizar_compras_recentes"}

ChaveNatural == IF alvo = "vendas" THEN "numeroNota" ELSE "numeroNotaFiscal"

(* the keys named by the changed set and by the cancellation set *)
ChavesDaRodada ==
    ChavesDe(dados_alterados.dados, ChaveNatural)
       \cup ChavesDe(dados_cancelados.dados, ChaveNatural)

(* C32: an incremental update whose changed set and cancellation set are    *)
(* both empty (or failed to arrive) ends with no write, the table as it     *)
(* was; and whatever the sets, every row of the table read whose natural    *)
(* key is in neither set is a row of the table after the run, every cell    *)
(* as before, and the table after the run has no row of another key.        *)
C32_LinhasForaDosConjuntosIntactas ==
    IncrementalRodou =>
       LET tabela == IF alvo = "vendas" THEN vendas ELSE compras
       IN /\ ChavesDaRodada = {} => (tabela = tabAntes /\ desfecho = "sem_dados")
          /\ \A i \in DOMAIN tabAntes :
                tabAntes[i][ChaveNatural] \notin ChavesDaRodada =>
                   /\ \E j \in DOMAIN tabela : tabela[j] = tabAntes[i]
                   /\ \A j \in DOMAIN tabela :
                         tabela[j][ChaveNatural] = tabAntes[i][ChaveNatural]
                            => tabela[j] = tabAntes[i]
          /\ \A j \in DOMAIN tabela :
                \/ tabela[j][ChaveNatural] \in ChavesDaRodada
                \/ \E i \in DOMAIN tabAntes : tabAntes[i] = tabela[j]

(* a sales update that rewrote the row of one note and left the row of the  *)
(* other note, named by neither set, in the table                           *)
C32_Witness ==
    /\ IncrementalRodou
    /\ alvo = "vendas"
    /\ desfecho = "escrita"
    /\ Len(tabAntes) = 2
    /\ vendas # tabAntes
    /\ \E i \in DOMAIN tabAntes : tabAntes[i].numeroNota \notin ChavesDaRodada
    /\ \E i \in DOMAIN tabAntes : tabAntes[i].numeroNota \in ChavesDaRodada

(* a period of the sales load or an incremental sales update has written   *)
(* the table                                                                *)
MergeDeVendasEscreveu ==
    /\ alvo = "vendas"
    /\ pc = "fim_tarefa"
    /\ tarefa \in {"carga_historica_vendas", "atualizar_vendas_recentes"}
    /\ desfecho = "escrita"

(* the rows the merge of the run makes, in the order it appends them: the   *)
(* base records, the returns, the exclusions                                *)
LinhasDaRodada ==
    PreencherStatus(dados_alterados.dados)
       \o Devolvidas(dados_cancelados.dados)
       \o Excluidas(dados_cancelados.dados)

UltimaDaChave(df, k) ==
    df[CHOOSE i \in DOMAIN df :
          /\ df[i].numeroNota = k
          /\ \A j \in DOMAIN df : df[j].numeroNota = k => j <= i]

StatusDeCancelamento == {<<"DEVOLUCAO">>, <<"Excluida">>}

(* C38: after a period of the sales load or an incremental sales update     *)
(* that wrote, the table holds for every note the run made a row for one    *)
(* row only, the last one the run made for it, whatever row the table held  *)
(* for that note before: a base record alone replaces a stored DEVOLUCAO or *)
(* Excluida row, and with a return or an exclusion of the note in the same  *)
(* run the cancellation row is the one stored.                              *)
C38_UltimoMergeVence ==
    MergeDeVendasEscreveu =>
       \A k \in ChavesDe(LinhasDaRodada, "numeroNota") :
          /\ \A j \in DOMAIN vendas :
                vendas[j].numeroNota = k => vendas[j] = UltimaDaChave(LinhasDaRodada, k)
          /\ Cardinality({j \in DOMAIN vendas : vendas[j].numeroNota = k}) = 1
          /\ (\E i \in DOMAIN dados_cancelados.dados :
                 /\ dados_cancelados.dados[i].numeroNota = k
                 /\ dados_cancelados.dados[i].tipoCancelamento \in {<<"D">>, <<"E">>})
              <=> UltimaDaChave(vendas, k).status \in StatusDeCancelamento

(* the table held a cancellation row of a note; the run brought a base      *)
(* record of that note and no cancellation of it; the stored row is the     *)
(* base record                                                              *)
C38_Witness ==
    /\ MergeDeVendasEscreveu
    /\ \E k \in Keys :
          /\ \E i \in DOMAIN tabAntes :
                tabAntes[i].numeroNota = k /\ tabAntes[i].status \in StatusDeCancelamento
          /\ \E i \in DOMAIN dados_alterados.dados : dados_alterados.dados[i].numeroNota = k
          /\ \A i \in DOMAIN dados_cancelados.dados : dados_cancelados.dados[i].numeroNota # k
          /\ \E j \in DOMAIN vendas :
                vendas[j].numeroNota = k /\ vendas[j].status = <<"OK">>

----------------------------------------------------------------------------
(* Claim about the periods with nothing to save (Spec) *)

----------------------------------------------------------------------------
(* Claims about the fact table and the sellers table (SpecSinal,            *)
(* SpecAnalitico, SpecVendedores)                                           *)

(* the enrichment wrote a fact table from a table 'vendas' that has rows *)
SinalAplicado ==
    /\ alvo = "sinal"
    /\ pc = "fim"
    /\ desfecho = "escrita"

(* the number pd.to_numeric(.., errors='coerce').fillna(0) reads in the     *)
(* financial cell of the stored sale n                                      *)
ValorLido(n) ==
    LET v == vendas[CHOOSE i \in DOMAIN vendas : vendas[i].numeroNota = n]
    IN IF v.valorTotalLiquido = NaN THEN 0 ELSE v.valorTotalLiquido[1]

EnriquecimentoEscreve ==
    /\ alvo = "analitico"
    /\ pc \in {"analitico_inicial", "analitico_do_ciclo"}
    /\ pc' # pc
    /\ desfecho' = "escrita"

(* C34: a call of the enrichment that writes leaves the three raw tables    *)
(* as they are and a fact table that is the frame derived from them alone:  *)
(* every row of it is a row of that frame, in its place, and a row of the   *)
(* fact table of before is there only when the frame has it; called on raw  *)
(* tables whose frame the fact table already is, it leaves the fact table   *)
(* as it was.                                                               *)
C34_TabelaDeFatosReconstruida ==
    [][EnriquecimentoEscreve =>
         LET derivada == Enriquecer(vendas, vendedores, produtos)
         IN /\ vendas' = vendas /\ vendedores' = vendedores /\ produtos' = produtos
            /\ vendas_processadas' = derivada
            /\ \A k \in DOMAIN vendas_processadas :
                  (\E j \in DOMAIN vendas_processadas' :
                      vendas_processadas'[j] = vendas_processadas[k])
                  => \E j \in DOMAIN derivada : derivada[j] = vendas_processadas[k]
            /\ (vendas_processadas = derivada)
                  => vendas_processadas' = vendas_processadas]_vars

(* the enrichment of the cycle replaced a fact table by another: a row of   *)
(* the table of before is gone and the new table is not longer              *)
C34_Witness ==
    /\ alvo = "analitico"
    /\ pc = "fim"
    /\ desfecho = "escrita"
    /\ tabAntes # <<>>
    /\ Len(vendas_processadas) <= Len(tabAntes)
    /\ \E k \in DOMAIN tabAntes :
          \A j \in DOMAIN vendas_processadas : vendas_processadas[j] # tabAntes[k]

(* the enrichment of the cycle ran on raw tables that had not changed and   *)
(* wrote the fact table it found                                            *)
C34_WitnessSemMudanca ==
    /\ alvo = "analitico"
    /\ pc = "fim"
    /\ desfecho = "escrita"
    /\ tabAntes # <<>>
    /\ vendas_processadas = tabAntes

(* while there is no sellers table every call of the enrichment returns     *)
(* without touching the fact table, and the sellers table comes back only   *)
(* by a synchronization whose fetch brought records                         *)
SemVendedoresNadaSeProcessa ==
    /\ (pc = "processar" /\ vendedores = <<>>) =>
         /\ vendas_processadas' = vendas_processadas
         /\ desfecho' = "abortado"
         /\ vendedores' = <<>>
    /\ (vendedores = <<>> /\ vendedores' # <<>>) =>
         /\ pc = "sincronizar"
         /\ dados_alterados'.ok /\ dados_alterados'.dados # <<>>

(* C40 as stated: a call of the sellers synchronization leaves the table it *)
(* found when the fetch failed, the list of the response when the fetch     *)
(* brought records, and no table when the fetch brought the empty list;     *)
(* with no sellers table the enrichment updates nothing until a             *)
(* synchronization brings records.                                          *)
C40_VendedoresIgualAResposta ==
    [][/\ (pc = "sincronizar" /\ pc' = "processar") =>
            /\ ~dados_alterados'.ok => vendedores' = vendedores
            /\ (dados_alterados'.ok /\ dados_alterados'.dados # <<>>) =>
                  vendedores' = dados_alterados'.dados
            /\ (dados_alterados'.ok /\ dados_alterados'.dados = <<>>) =>
                  vendedores' = <<>>
            /\ vendas_processadas' = vendas_processadas
       /\ SemVendedoresNadaSeProcessa]_vars

(* C40: a call of the sellers synchronization leaves the table it found     *)
(* when the fetch failed or the storage refused the write (the to_sql       *)
(* raised, or the DROP failed and was only logged); otherwise it leaves the *)
(* list of the response when the fetch brought records and no table when    *)
(* the fetch brought the empty list.  While there is no sellers table every *)
(* call of the enrichment returns without touching the fact table, and the  *)
(* sellers table comes back only by a synchronization whose fetch brought   *)
(* records.                                                                 *)
C40_VendedoresSubstituidos ==
    [][/\ (pc = "sincronizar" /\ pc' = "processar") =>
            /\ (~dados_alterados'.ok \/ falhas' # {}) => vendedores' = vendedores
            /\ (dados_alterados'.ok /\ falhas' = {} /\ dados_alterados'.dados # <<>>) =>
                  vendedores' = dados_alterados'.dados
            /\ (dados_alterados'.ok /\ falhas' = {} /\ dados_alterados'.dados = <<>>) =>
                  vendedores' = <<>>
            /\ vendas_processadas' = vendas_processadas
       /\ SemVendedoresNadaSeProcessa]_vars

(* an empty list dropped a sellers table that had rows, and the enrichment  *)
(* called next returned leaving the fact table written before               *)
C40_Witness ==
    /\ alvo = "vendedores"
    /\ pc = "sincronizar"
    /\ df_existente # <<>>
    /\ dados_alterados = Lista(<<>>)
    /\ falhas = {}
    /\ vendedores = <<>>
    /\ desfecho = "abortado"
    /\ vendas_processadas # <<>>

----------------------------------------------------------------------------
(* Claims about the loads the orchestrator owes (SpecOrquestradorJusto) and *)
(* about the enrichment (SpecAnalitico, SpecDecodificacao)                  *)

(* C18 as stated: a historical load that was aborted on a fetch or write    *)
(* failure is invoked again by the running scheduler (a scheduler that is   *)
(* stopped owes nothing).                                                   *)
C18_CargaAbortadaRetomada ==
    \A t \in {"vendas", "compras"} :
       (t \in carga_abortada) ~> (t \notin carga_abortada \/ pc = "parado")

(* C20: an enrichment called while 'vendas', 'vendedores' or 'produtos' is  *)
(* missing leaves the fact table, whether it exists or not, and every raw   *)
(* table as they were.                                                      *)
C20_SemTabelaBrutaNadaEscreve ==
    [][(/\ pc \in {"analitico_inicial", "analitico_do_ciclo"}
        /\ (vendas = <<>> \/ vendedores = <<>> \/ produtos = <<>>))
         => /\ vendas_processadas' = vendas_processadas
            /\ vendas' = vendas
            /\ vendedores' = vendedores
            /\ produtos' = produtos
            /\ compras' = compras]_vars

(* the sellers table was dropped by an empty response after a fact table    *)
(* was written; the enrichment that followed returned and the fact table    *)
(* is the one written before                                                *)
C20_Witness ==
    /\ pc = "fim"
    /\ tarefa = "processar_e_salvar_dados_analiticos"
    /\ desfecho = "abortado"
    /\ vendedores = <<>>
    /\ vendas # <<>> /\ produtos # <<>>
    /\ Len(vendas_processadas) = 2
    /\ vendas_processadas = tabAntes

(* what a reader of the table gets for the rows of df: the cells that were  *)
(* a list or a dict come back as the string of their JSON text              *)
ComoLido(df) ==
    [i \in DOMAIN df |->
       [numeroNota |-> df[i].numeroNota,
        itens |-> [py |-> IF df[i].itens.py \in {"list", "dict"} THEN "str"
                          ELSE df[i].itens.py,
                   texto |-> df[i].itens.texto]]]

EscritaELeituraSemFalha ==
    /\ pc = "lido" /\ tarefa = "replace" /\ falhas = {}
    /\ desfecho \in {"removida", "escrita"}

(* C21 as stated: after a replace write and a read, both without a storage  *)
(* failure, an empty frame left no table and the read is empty; a frame     *)
(* with rows is read back as exactly those rows.                            *)
C21_LeituraDevolveOEscrito ==
    EscritaELeituraSemFalha =>
      IF df_vendas_periodo = <<>>
      THEN ~vendas.existe /\ df_existente = <<>>
      ELSE df_existente = df_vendas_periodo

(* C21 amended: no write leaves a table without rows; a replace write of an *)
(* empty frame removes the table unless the DROP fails, and then the table  *)
(* is as it was; a replace write of rows that does not raise is read back   *)
(* as those rows with each list or dict cell replaced by its JSON text.     *)
C21_LeituraDevolveOSerializado ==
    /\ ~(vendas.existe /\ vendas.linhas = <<>>)
    /\ (pc \in {"ler", "lido"} /\ tarefa = "replace" /\ df_vendas_periodo = <<>>) =>
          IF desfecho = "removida" THEN ~vendas.existe ELSE vendas = tabAntes
    /\ EscritaELeituraSemFalha =>
          IF df_vendas_periodo = <<>>
          THEN ~vendas.existe /\ df_existente = <<>>
          ELSE df_existente = ComoLido(df_vendas_periodo)

(* a frame with a list cell and a dict cell replaced a table of one row     *)
C21_Witness ==
    /\ EscritaELeituraSemFalha
    /\ tabAntes.existe /\ Len(tabAntes.linhas) = 1
    /\ Len(df_vendas_periodo) = 2
    /\ df_vendas_periodo[1].itens.py = "list"
    /\ df_vendas_periodo[2].itens.py = "dict"
    /\ df_existente # df_vendas_periodo

(* an empty frame removed a table that existed *)
C21_WitnessVazio ==
    /\ EscritaELeituraSemFalha
    /\ df_vendas_periodo = <<>>
    /\ tabAntes.existe
    /\ ~vendas.existe

(* C22 as stated, for the tasks that write 'vendas' and 'compras': a task   *)
(* run while its table does not exist ends without raising, and when the    *)
(* upstream sent records and the write went through the table holds rows.   *)
C22_TabelaAusenteNaoEErro ==
    (pc = "fim_tarefa" /\ tabAntes = <<>>) =>
      /\ desfecho # "KeyError"
      /\ (desfecho # "falha_escrita" /\ dados_alterados.dados # <<>>) =>
            TabelaDe(IF alvo = "vendas" THEN "carga_historica_vendas"
                     ELSE "carga_historica_compras") # <<>>

EnriquecimentoEscreveu ==
    /\ pc \in {"ciclo", "fim"}
    /\ tarefa = "processar_e_salvar_dados_analiticos"
    /\ desfecho = "escrita"

(* C23 as stated: in the fact table an enrichment wrote, no joined          *)
(* descriptive column is null, and a row whose seller or product has no     *)
(* match carries the sentinel in the columns of that join.                  *)
C23_SentinelaNuncaNulo ==
    EnriquecimentoEscreveu =>
      \A n \in DOMAIN vendas_processadas :
         LET linha == vendas_processadas[n]
         IN /\ linha.nomeVendedor # NaN /\ linha.nome # NaN
            /\ linha.nomeGrupo # NaN /\ linha.nomeCategoria # NaN
            /\ LinhasDaDimensao(vendedores, linha.codigoVendedor) = {} =>
                  linha.nomeVendedor = <<"Nao encontrado">>
            /\ LinhasDaDimensao(produtos, linha.codigoProduto) = {} =>
                  /\ linha.nome \in {<<"Nao encontrado">>, <<"Item">>}
                  /\ linha.nomeGrupo = <<"Nao encontrado">>
                  /\ linha.nomeCategoria = <<"Sem Categoria">>

(* what does hold: the seller name, the group and the category are never    *)
(* null and carry their sentinel when the join finds nothing                *)
C23_SentinelaSalvoNomeDoProduto ==
    EnriquecimentoEscreveu =>
      \A n \in DOMAIN vendas_processadas :
         LET linha == vendas_processadas[n]
         IN /\ linha.nomeVendedor # NaN
            /\ linha.nomeGrupo # NaN /\ linha.nomeCategoria # NaN
            /\ LinhasDaDimensao(vendedores, linha.codigoVendedor) = {} =>
                  linha.nomeVendedor = <<"Nao encontrado">>
            /\ LinhasDaDimensao(produtos, linha.codigoProduto) = {} =>
                  /\ linha.nomeGrupo = <<"Nao encontrado">>
                  /\ linha.nomeCategoria = <<"Sem Categoria">>


----------------------------------------------------------------------------
(* Claims about the checkpoint and the windows of a historical load (Spec) *)

ColunaChave(t) == IF t = "carga_historica_vendas" THEN "numeroNota" ELSE "numeroNotaFiscal"

(* every record of the frame of the period, the last one of a key, is a row *)
(* of the table                                                             *)
PeriodoPersistido(t) ==
    LET reconciliados == DropDuplicatesLast(df_vendas_periodo, ColunaChave(t))
    IN \A i \in DOMAIN reconciliados :
          \E j \in DOMAIN TabelaDe(t) : TabelaDe(t)[j] = reconciliados[i]

CargaAbortada ==
    /\ pc = "ocioso"
    /\ tarefa # "nenhuma"
    /\ desfecho \in {"falha_busca", "falha_escrita"}

(* the start dates of the periods the run went through before the one it is at *)
PeriodosCompletos ==
    {d \in data_inicio_loop..(data_atual_periodo - 1) :
       (d - data_inicio_loop) % SALES_FILE_DAYS_INTERVAL = 0}

(* C26 as stated: a run that aborts leaves a checkpoint file exactly when   *)
(* there was one when its failing period began with none completed, or a    *)
(* period of the run completed.                                             *)
C26_AbortadaDeixaCheckpointSeCompletou ==
    CargaAbortada =>
      (estado[tarefa] # NaN <=> (PeriodosCompletos # {} \/ cpAntes # NaN))

(* C26, what holds: the step that ends a run whose loop is exhausted leaves *)
(* no checkpoint file; no other step removes a checkpoint file; an aborted  *)
(* run leaves in the file what it found at entry or the start date of a     *)
(* period it completed (none when every save of the run failed).            *)
C26_CheckpointAoFimDaCarga ==
    [][/\ (pc = "laco" /\ desfecho' = "concluida" /\ pc' = "ocioso")
            => estado'[tarefa] = NaN
       /\ \A t \in DOMAIN estado :
            (estado[t] # NaN /\ estado'[t] = NaN)
               => (pc = "laco" /\ t = tarefa /\ data_atual_periodo > data_fim_loop)
       /\ CargaAbortada' =>
            /\ estado' = estado
            /\ estado'[tarefa'] \in {cpEntrada', Corrompido}
                                     \cup {<<d>> : d \in PeriodosCompletos'}]_vars

(* a run with no checkpoint at entry completed its first period, saved its  *)
(* start date and aborted in the second                                     *)
C26_Witness ==
    /\ CargaAbortada
    /\ cpEntrada = NaN
    /\ estado[tarefa] = <<DataInicioHistorico>>
    /\ data_atual_periodo = DataInicioHistorico + SALES_FILE_DAYS_INTERVAL

(* a run whose end snapshot lies in the second period completed *)
C26_WitnessConcluida ==
    /\ pc = "ocioso"
    /\ desfecho = "concluida"
    /\ estado[alvo] = NaN
    /\ relogio >= DataInicioHistorico + SALES_FILE_DAYS_INTERVAL

(* the periods of SALES_FILE_DAYS_INTERVAL days that start at the start of  *)
(* the loop and at or before the day ate, the last cut at the end snapshot  *)
JanelasAte(ate) ==
    {<<d, Min(d + SALES_FILE_DAYS_INTERVAL - 1, data_fim_loop)>> :
       d \in {x \in data_inicio_loop..ate :
                (x - data_inicio_loop) % SALES_FILE_DAYS_INTERVAL = 0}}

(* C27: within a run the end snapshot and the resume point do not change;   *)
(* the periods fetched so far are exactly those that start at the resume    *)
(* point and then every SALES_FILE_DAYS_INTERVAL days, each of that many    *)
(* days except that none ends after the end snapshot (so they are           *)
(* contiguous and do not overlap); a run that completes has fetched every   *)
(* day from the resume point to the end snapshot; each saved period moves   *)
(* the loop one window forward and the number of periods is bounded by the  *)
(* days between the resume point and the end snapshot.                      *)
C27_JanelasContiguasELimitadas ==
    [][/\ tarefa # "nenhuma" =>
            /\ buscas = JanelasAte(IF pc = "laco" THEN data_atual_periodo - 1
                                    ELSE data_atual_periodo)
            /\ \A b \in buscas : b[1] <= b[2] /\ b[2] <= data_fim_loop
            /\ \A b1, b2 \in buscas : b1 # b2 => (b1[2] < b2[1] \/ b2[2] < b1[1])
            /\ SALES_FILE_DAYS_INTERVAL * Cardinality(buscas)
                  < data_fim_loop - data_inicio_loop + 1 + SALES_FILE_DAYS_INTERVAL
       /\ (pc \in {"laco", "checkpoint"} /\ tarefa' = tarefa) =>
            /\ data_fim_loop' = data_fim_loop
            /\ data_inicio_loop' = data_inicio_loop
       /\ (pc = "checkpoint" /\ pc' = "laco") =>
            data_atual_periodo' = data_atual_periodo + SALES_FILE_DAYS_INTERVAL
       /\ (pc = "laco" /\ pc' = "ocioso" /\ desfecho' = "concluida") =>
            \A dia \in data_inicio_loop..data_fim_loop :
               \E b \in buscas : b[1] <= dia /\ dia <= b[2]]_vars

(* a run went through a whole period and a last one cut at the end snapshot *)
C27_Witness ==
    /\ pc = "laco"
    /\ data_inicio_loop = DataInicioHistorico
    /\ data_fim_loop = DataInicioHistorico + SALES_FILE_DAYS_INTERVAL + 1
    /\ buscas = {<<DataInicioHistorico, DataInicioHistorico + SALES_FILE_DAYS_INTERVAL - 1>>,
                 <<DataInicioHistorico + SALES_FILE_DAYS_INTERVAL, data_fim_loop>>}
    /\ data_atual_periodo > data_fim_loop

----------------------------------------------------------------------------
(* Claims about JSON decoding in the enrichment (SpecDecodificacao) *)

(* the table with every JSON text well formed *)
BemFormada(df) ==
    [i \in DOMAIN df |-> [df[i] EXCEPT !.itens_json = "ok", !.pagamento_json = "ok"]]

NotasBemFormadas ==
    {vendas[i].numeroNota : i \in {j \in DOMAIN vendas :
        vendas[j].itens_json = "ok" /\ vendas[j].pagamento_json = "ok"}}

LinhasDasNotas(df, notas) ==
    LET DaNota(linha) == linha.numeroNota \in notas
    IN SelectSeq(df, DaNota)

(* the enrichment ran on a table 'vendas' that has rows *)
DecodificacaoRodou ==
    /\ alvo = "decodificacao"
    /\ pc = "fim"
    /\ vendas # <<>>

(* C24 as stated: a stored sale whose item list or payment condition is not *)
(* JSON never aborts the enrichment; the fact rows of the other sales are   *)
(* the rows they have when every text is well formed; the malformed sale    *)
(* still has a row, with the field it could not decode absent.              *)
C24_MalformadoNaoAfetaOsOutros ==
    DecodificacaoRodou =>
      /\ desfecho \in {"escrita", "falha_escrita"}
      /\ desfecho = "escrita" =>
           /\ LinhasDasNotas(vendas_processadas, NotasBemFormadas)
                = LinhasDasNotas(Enriquecer(BemFormada(vendas), vendedores, produtos),
                                 NotasBemFormadas)
           /\ \A i \in DOMAIN vendas :
                 /\ vendas[i].itens_json = "malformado" =>
                       \E n \in DOMAIN vendas_processadas :
                          /\ vendas_processadas[n].numeroNota = vendas[i].numeroNota
                          /\ vendas_processadas[n].codigoProduto.texto = "nan"
                 /\ vendas[i].pagamento_json = "malformado" =>
                       \E n \in DOMAIN vendas_processadas :
                          /\ vendas_processadas[n].numeroNota = vendas[i].numeroNota
                          /\ vendas_processadas[n].condicaoPagamento_nome = NaN

(* what holds of the code: the same, for the tables whose product codes are *)
(* strings; with integer codes the column with a missing value is a float   *)
(* column and the codes of the other sales read "1.0"                       *)
C24_MalformadoComCodigosDeTexto ==
    (\A i \in DOMAIN vendas : \A k \in DOMAIN vendas[i].itens :
        vendas[i].itens[k].codigoProduto.tipo = "str")
      => C24_MalformadoNaoAfetaOsOutros
====
